---- MODULE Spec2Model ----
(***************************************************************************)
(* A model of the fcitx5-keyman bridge (src/src/engine.cpp, engine.h,      *)
(* kmpdata.h): the per input context KeymanState, the keyboard data and    *)
(* the handlers activate / keyEvent / reset of KeymanEngine.               *)
(*                                                                         *)
(* Representation.  A UTF-8 std::string is the sequence of the code points *)
(* its characters decode to (fcitx's SurroundingText counts anchor and     *)
(* cursor in characters, and utf8::nextNChar steps over characters).  A    *)
(* UTF-16 buffer is the sequence of its 16-bit units.  The Keyman core is  *)
(* an external library: of a session (km_core_state) the model keeps the   *)
(* context last pushed or cleared by the bridge and whether the core has   *)
(* processed an event since (the core then owns the content).  Every       *)
(* handler records the calls it makes on the host and on the core in ev.   *)
(***************************************************************************)
EXTENDS Integers, Sequences, FiniteSets, TLC

\* ------------------------------------------------------------ constants
MAXCONTEXT_ITEMS == 128
KEYMAN_LCTRL == 29
KEYMAN_LALT == 56
KEYMAN_RCTRL == 97
KEYMAN_RALT == 100

\* longest host text of the context specification
MaxTextLen == 130
\* largest code_points_to_delete the core answers with
MaxDelete == 3

AllKBs == {"k1", "k2"}
AllICs == {"ic1", "ic2"}

\* code points used in texts: one ASCII, one BMP, one supplementary
Alphabet == <<97, 945, 128512>>

Min(a, b) == IF a < b THEN a ELSE b

\* ------------------------------------------------------------ transcoder
\* fcitx utf8::validate: every character decodes to a Unicode scalar value
UnicodeValid(c) == c >= 0 /\ c < 1114112 /\ ~(c >= 55296 /\ c <= 57343)

Validate(str) == \A i \in 1..Len(str) : UnicodeValid(str[i])

\* mutation: the high surrogate computed without the 0x10000 bias
EncodeUnits_unbiased(ucs4) ==
    IF ucs4 < 65536 THEN <<ucs4 % 65536>>
    ELSE IF ucs4 < 1114112
         THEN << 55296 + ((ucs4 \div 1024) % 1024),
                 56320 + (ucs4 % 1024) >>
         ELSE <<>>

\* mutation: the low surrogate takes eleven bits of the code point
EncodeUnits_widelow(ucs4) ==
    IF ucs4 < 65536 THEN <<ucs4 % 65536>>
    ELSE IF ucs4 < 1114112
         THEN << 55296 + (((ucs4 - 65536) \div 1024) % 1024),
                 56320 + (ucs4 % 2048) >>
         ELSE <<>>

\* the units one code point encodes to, <<>> when it cannot be encoded
EncodeUnits(ucs4) ==
    IF ucs4 < 65536 THEN <<ucs4 % 65536>>
    ELSE IF ucs4 < 1114112
         THEN << 55296 + (((ucs4 - 65536) \div 1024) % 1024),
                 56320 + (ucs4 % 1024) >>
         ELSE <<>>

\* the loop over the characters appends the units of each in order (the
\* concatenation is evaluated by halves, which keeps the evaluation of a
\* long text shallow)
RECURSIVE EncodeAll(_)
EncodeAll(str) ==
    IF str = <<>> THEN <<>>
    ELSE IF Len(str) = 1 THEN EncodeUnits(str[1])
    ELSE LET m == Len(str) \div 2 IN
         EncodeAll(SubSeq(str, 1, m)) \o EncodeAll(SubSeq(str, m + 1, Len(str)))

\* mutation: the units of the characters before the first invalid one
utf8ToUTF16_partial(str) ==
    LET bad == {i \in 1..Len(str) : ~UnicodeValid(str[i])} IN
    IF bad = {} THEN EncodeAll(str) \o <<0>>
    ELSE EncodeAll(SubSeq(str, 1,
                          (CHOOSE i \in bad : \A j \in bad : i <= j) - 1))

\* mutation: no terminating 0 is appended
utf8ToUTF16_unterminated(str) ==
    IF ~Validate(str) THEN <<>>
    ELSE IF \E i \in 1..Len(str) : str[i] >= 1114112 THEN <<>>
    ELSE EncodeAll(str)

\* utf8ToUTF16: the units followed by the terminating 0, or the empty vector
utf8ToUTF16(str) ==
    IF ~Validate(str) THEN <<>>
    ELSE IF \E i \in 1..Len(str) : str[i] >= 1114112 THEN <<>>
    ELSE EncodeAll(str) \o <<0>>

IsHigh(u) == u >= 55296 /\ u <= 56319
IsLow(u) == u >= 56320 /\ u <= 57343

\* utf16ToUTF8 over the range [start, end): Fail16 stands for the early
\* return of the empty string
Fail16 == <<0 - 1>>

\* mutation: the text decoded before the fault is returned
RECURSIVE Decode16_skipping(_)
Decode16_skipping(units) ==
    IF units = <<>> THEN <<>>
    ELSE LET u == Head(units) IN
         IF ~IsHigh(u) /\ ~IsLow(u)
         THEN <<u>> \o Decode16_skipping(Tail(units))
         ELSE IF IsHigh(u) /\ Len(units) > 1 /\ IsLow(units[2])
         THEN << ((u % 1024) * 1024 + (units[2] % 1024)) + 65536 >>
                \o Decode16_skipping(Tail(Tail(units)))
         ELSE <<>>

RECURSIVE Decode16(_)
Decode16(units) ==
    IF units = <<>> THEN <<>>
    ELSE LET u == Head(units) IN
         IF ~IsHigh(u) /\ ~IsLow(u)
         THEN LET r == Decode16(Tail(units)) IN
              IF r = Fail16 THEN r ELSE <<u>> \o r
         ELSE IF IsHigh(u)
         THEN IF Len(units) = 1 THEN Fail16
              ELSE IF IsLow(units[2])
                   THEN LET r == Decode16(Tail(Tail(units))) IN
                        IF r = Fail16 THEN r
                        ELSE << ((u % 1024) * 1024 + (units[2] % 1024)) + 65536 >> \o r
                   ELSE Fail16
         ELSE Fail16

utf16ToUTF8(units) ==
    LET r == Decode16(units) IN IF r = Fail16 THEN <<>> ELSE r

\* a null-terminated buffer as the callee reads it: the units before the
\* first 0
UntilNul(units) ==
    LET nuls == {i \in 1..Len(units) : units[i] = 0} IN
    IF nuls = {} THEN units
    ELSE SubSeq(units, 1, (CHOOSE i \in nuls : \A j \in nuls : i <= j) - 1)

\* ------------------------------------------------------------ key table
\* keycode_to_vk[256]: 89 initialised entries, the rest zero
keycode_to_vk_init ==
    << 0, 27, 49, 50, 51, 52, 53, 54, 55, 56, 57, 48, 189, 187, 8, 9,
       81, 87, 69, 82, 84, 89, 85, 73, 79, 80, 219, 221, 13, 0,
       65, 83, 68, 70, 71, 72, 74, 75, 76, 186, 222, 192, 0, 220,
       90, 88, 67, 86, 66, 78, 77, 188, 190, 191, 0, 106, 0, 32, 0,
       112, 113, 114, 115, 116, 117, 118, 119, 120, 121, 0, 0,
       103, 104, 105, 109, 100, 101, 102, 107, 97, 98, 99, 96, 110,
       0, 0, 226, 122, 123 >>

\* mutation: the table read one entry further on
keycode_to_vk_shifted(keycode) ==
    IF keycode + 2 <= Len(keycode_to_vk_init)
    THEN keycode_to_vk_init[keycode + 2] ELSE 0

\* mutation: the Ctrl and Alt keys have entries of their own
keycode_to_vk_modifiers(keycode) ==
    IF keycode \in {KEYMAN_LCTRL, KEYMAN_RCTRL} THEN 17
    ELSE IF keycode \in {KEYMAN_LALT, KEYMAN_RALT} THEN 18
    ELSE IF keycode + 1 <= Len(keycode_to_vk_init)
    THEN keycode_to_vk_init[keycode + 1] ELSE 0

keycode_to_vk(keycode) ==
    IF keycode + 1 <= Len(keycode_to_vk_init)
    THEN keycode_to_vk_init[keycode + 1] ELSE 0

\* ------------------------------------------------------------ state
VARIABLES
    kbd,            \* per keyboard: KeymanKeyboardData
    ics,            \* the input contexts the host has created
    host,           \* per input context: capability flag and surrounding text
    prop,           \* per (keyboard, input context): the KeymanState property
    emit_keystroke, \* KeymanEngine::emit_keystroke
    core,           \* per (keyboard, input context): the km_core_state
                    \* objects the core holds
    timestamp_,     \* KeymanEngine::timestamp_
    last,           \* history, per (keyboard, input context) and latch: the
                    \* last event for the key of the latch that the session
                    \* was given since it was created or reset
    ev              \* the last handler: its inputs and the calls it made

vars ==
    <<kbd, ics, host, prop, emit_keystroke, core, timestamp_, last, ev>>

\* no event yet for any of the four keys
NoEvents ==
    [lctrl_pressed |-> "none", rctrl_pressed |-> "none",
     lalt_pressed |-> "none", ralt_pressed |-> "none"]

\* the km_core_state objects of a pair: live counts those created for the
\* input context the pair has now, orphaned is whether one created for an
\* input context since destroyed was never disposed
NoCore == [live |-> 0, orphaned |-> FALSE]

\* km_core_state_create answered with a new object for each pair of made
allocated(c, made) ==
    [p \in DOMAIN c |->
        IF p \in made THEN [c[p] EXCEPT !.live = @ + 1] ELSE c[p]]

\* the KeymanState of a pair for which the factory created none
NoProperty ==
    [exists |-> FALSE, state |-> FALSE, ctx |-> <<>>, edited |-> FALSE,
     lctrl_pressed |-> FALSE, rctrl_pressed |-> FALSE,
     lalt_pressed |-> FALSE, ralt_pressed |-> FALSE]

\* a SurroundingText that is not valid (SurroundingText::invalidate)
InvalidHost(cap) ==
    [cap |-> cap, valid |-> FALSE, text |-> <<>>, anchor |-> 0, cursor |-> 0]

NoKey == [code |-> 0, sym |-> "None", states |-> {}, release |-> FALSE]
\* km_core_option_item; a null key or value pointer is key_null / value_null
OptionItem(scope, key_null, key, value_null, value) ==
    [scope |-> scope, key_null |-> key_null, key |-> key,
     value_null |-> value_null, value |-> value]

\* the KM_CORE_OPTIONS_END item that ends a persist_options array
OptionsEnd == OptionItem(0, TRUE, <<>>, TRUE, <<>>)

\* km_core_actions; output_null is a null output pointer, output the code
\* points before the terminating 0
Actions(n, output_null, output, emit, persist) ==
    [code_points_to_delete |-> n, output_null |-> output_null,
     output |-> output, emit_keystroke |-> emit, persist_options |-> persist]

NoActions == Actions(0, TRUE, <<>>, FALSE, <<OptionsEnd>>)

\* what the last handler did: path is the return it left by, calls the calls
\* it made in order, filtered whether it called filterAndAccept, rawSet
\* whether its deleting step set emit_keystroke
Event(op, kb, ic, key, act, path, calls, filtered, rawSet) ==
    [op |-> op, kb |-> kb, ic |-> ic, key |-> key, act |-> act,
     path |-> path, calls |-> calls, filtered |-> filtered,
     rawSet |-> rawSet]

Call(f, a) == [f |-> f, a |-> a]

\* ------------------------------------------------------------ KeymanState
\* the result of a method of KeymanState: the object after it and the calls
\* it made
Ran(s, calls) == [s |-> s, calls |-> calls]

\* updateContext's test: the capability flag and a valid surrounding text
SurroundingUsable(h) == h.cap /\ h.valid

\* mutation: the cursor alone, whatever the anchor
context_pos_cursor(h) == h.cursor

context_pos(h) == Min(h.anchor, h.cursor)

context_start(pos) ==
    IF pos > MAXCONTEXT_ITEMS THEN pos - MAXCONTEXT_ITEMS ELSE 0

\* new_context: utf8::nextNChar from the start of the text to context_start,
\* then context_pos - context_start characters on
new_context(h) ==
    LET pos == context_pos(h)
        start == context_start(pos)
    IN  SubSeq(h.text, start + 1, start + (pos - start))

\* km_core_state_context_set_if_needed(state, buffer): an empty vector has
\* no buffer and the core refuses the call; otherwise the context becomes
\* the units before the terminator
context_set_if_needed(s, utf16Context) ==
    IF utf16Context = <<>> THEN s
    ELSE [s EXCEPT !.ctx = UntilNul(utf16Context), !.edited = FALSE]

\* mutation: a refresh that cannot read the host clears the context
updateContext_clearing(s, h) ==
    IF SurroundingUsable(h)
    THEN LET utf16Context == utf8ToUTF16(new_context(h)) IN
         Ran(context_set_if_needed(s, utf16Context),
             << Call("updateContext", <<>>),
                Call("context_set_if_needed", utf16Context) >>)
    ELSE Ran([s EXCEPT !.ctx = <<>>, !.edited = FALSE],
             << Call("updateContext", <<>>), Call("context_clear", <<>>) >>)

\* KeymanState::updateContext
updateContext(s, h) ==
    IF SurroundingUsable(h)
    THEN LET utf16Context == utf8ToUTF16(new_context(h)) IN
         Ran(context_set_if_needed(s, utf16Context),
             << Call("updateContext", <<>>),
                Call("context_set_if_needed", utf16Context) >>)
    ELSE Ran(s, << Call("updateContext", <<>>) >>)

\* mutation: the clear is left out
clearContext_skipped(s) == Ran(s, <<>>)

\* KeymanState::clearContext, km_core_state_context_clear
clearContext(s) ==
    Ran([s EXCEPT !.ctx = <<>>, !.edited = FALSE],
        << Call("context_clear", <<>>) >>)

\* mutation: a reset that forgets the Alt latches
resetLatches_ctrlonly(s) ==
    [s EXCEPT !.lctrl_pressed = FALSE, !.rctrl_pressed = FALSE]

\* KeymanState::reset
resetLatches(s) ==
    [s EXCEPT !.lctrl_pressed = FALSE, !.rctrl_pressed = FALSE,
              !.lalt_pressed = FALSE, !.ralt_pressed = FALSE]

\* mutation: a constructor that leaves the context of the new session alone
KeymanStateNew_norefresh(h, created) ==
    Ran([NoProperty EXCEPT !.exists = TRUE, !.state = created],
        << Call("state_create", <<created>>) >>)

\* KeymanState::KeymanState: created is whether km_core_state_create
\* answers KM_CORE_STATUS_OK
KeymanStateNew(h, created) ==
    LET fresh == [NoProperty EXCEPT !.exists = TRUE]
        create == << Call("state_create", <<created>>) >>
    IN  IF ~created THEN Ran(fresh, create)
        ELSE LET r == updateContext([fresh EXCEPT !.state = TRUE], h) IN
             Ran(r.s, create \o r.calls)

\* ------------------------------------------------------------ keyboard data
LoadOutcomes == {"nokmx", "nostat", "nommap", "noload", "ok"}

ICOrder == <<"ic1", "ic2">>

\* InputContextManager::registerProperty creates the property of every
\* existing input context through the factory
RECURSIVE CreateAll(_, _, _, _, _, _)
CreateAll(i, kb, live, hosts, created, acc) ==
    IF i > Len(ICOrder) THEN acc
    ELSE LET ic == ICOrder[i] IN
         IF ic \notin live THEN CreateAll(i + 1, kb, live, hosts, created, acc)
         ELSE LET r == KeymanStateNew(hosts[ic], created[ic]) IN
              CreateAll(i + 1, kb, live, hosts, created,
                        [p |-> [acc.p EXCEPT ![<<kb, ic>>] = r.s],
                         calls |-> acc.calls \o r.calls,
                         made |-> acc.made \cup
                                  (IF r.s.state THEN {<<kb, ic>>} ELSE {})])

\* KeymanKeyboardData::load past the loaded_ test: outcome is how far the
\* loading gets, registers whether registerProperty accepts the factory
loading(kb, outcome, registers, created) ==
    LET d1 == [kbd[kb] EXCEPT !.loaded_ = TRUE] IN
    IF outcome # "ok"
    THEN [d |-> d1, p |-> prop, made |-> {},
          calls |-> << Call("load", <<outcome>>) >>]
    ELSE IF ~registers
    THEN [d |-> [d1 EXCEPT !.keyboard_ = TRUE, !.config_ = d1.file],
          p |-> prop, made |-> {},
          calls |-> << Call("load", <<outcome>>),
                       Call("registerProperty", <<FALSE>>),
                       Call("readAsIni", <<>>) >>]
    ELSE LET r == CreateAll(1, kb, ics, host, created,
                            [p |-> prop, calls |-> <<>>, made |-> {}]) IN
         [d |-> [d1 EXCEPT !.keyboard_ = TRUE, !.registered = TRUE,
                           !.config_ = d1.file],
          p |-> r.p, made |-> r.made,
          calls |-> << Call("load", <<outcome>>),
                       Call("registerProperty", <<TRUE>>) >>
                    \o r.calls \o << Call("readAsIni", <<>>) >>]

\* mutation: a load that is tried again while no keyboard is loaded
load_retrying(kb, outcome, registers, created) ==
    IF kbd[kb].keyboard_
    THEN [d |-> kbd[kb], p |-> prop, made |-> {}, calls |-> <<>>]
    ELSE loading(kb, outcome, registers, created)

\* mutation: a load without the loaded_ test
load_unguarded(kb, outcome, registers, created) ==
    loading(kb, outcome, registers, created)

\* mutation: a loaded keyboard reads its persisted options again
load_rereading(kb, outcome, registers, created) ==
    IF kbd[kb].loaded_
    THEN [d |-> [kbd[kb] EXCEPT !.config_ = kbd[kb].file], p |-> prop,
          made |-> {}, calls |-> << Call("readAsIni", <<>>) >>]
    ELSE loading(kb, outcome, registers, created)

\* KeymanKeyboardData::load
load(kb, outcome, registers, created) ==
    IF kbd[kb].loaded_
    THEN [d |-> kbd[kb], p |-> prop, made |-> {}, calls |-> <<>>]
    ELSE loading(kb, outcome, registers, created)

\* mutation: the session handle of the property is not looked at
state_unchecked(d, p, kb, ic) ==
    IF ~d.keyboard_ \/ ~d.registered THEN FALSE
    ELSE p[<<kb, ic>>].exists

\* KeymanEngine::state: TRUE when it returns a KeymanState, FALSE for nullptr
state(d, p, kb, ic) ==
    IF ~d.keyboard_ \/ ~d.registered THEN FALSE
    ELSE p[<<kb, ic>>].state

\* mutation: the write is made whatever the key decodes to
setOption_unchecked(config, key, value) ==
    LET utf8Key == utf16ToUTF8(key)
        utf8Value == utf16ToUTF8(value)
    IN  [config |-> {o \in config : o[1] # utf8Key}
                      \cup {<<utf8Key, utf8Value>>},
         calls |-> << Call("setValueByPath", <<utf8Key, utf8Value>>),
                      Call("safeSaveAsIni", <<>>) >>]

\* KeymanKeyboardData::setOption
setOption(config, key, value) ==
    LET utf8Key == utf16ToUTF8(key)
        utf8Value == utf16ToUTF8(value)
    IN  IF utf8Key # <<>>
        THEN [config |-> {o \in config : o[1] # utf8Key}
                            \cup {<<utf8Key, utf8Value>>},
              calls |-> << Call("setValueByPath", <<utf8Key, utf8Value>>),
                           Call("safeSaveAsIni", <<>>) >>]
        ELSE [config |-> config, calls |-> <<>>]

\* ------------------------------------------------------------ keys
\* Key::check(FcitxKey_BackSpace): the symbol, with none of the modifiers
\* the comparison looks at
CheckedStates == {"Shift", "Ctrl", "Mod1", "Super", "Mod3"}

checkBackSpace(key) ==
    key.sym = "BackSpace" /\ (key.states \cap CheckedStates) = {}

CursorSyms == {"Home", "Left", "Up", "Right", "Down", "Page_Up",
               "Page_Down", "End"}

\* Key::isCursorMove
isCursorMove(key) ==
    /\ key.sym \in CursorSyms
    /\ key.states \in {{}, {"Ctrl"}, {"Shift"}, {"Ctrl", "Shift"}}

\* mutation: a release is not looked at
observe_pressonly(s, keycode, release) ==
    IF release THEN s
    ELSE IF keycode = KEYMAN_LCTRL THEN [s EXCEPT !.lctrl_pressed = TRUE]
    ELSE IF keycode = KEYMAN_RCTRL THEN [s EXCEPT !.rctrl_pressed = TRUE]
    ELSE IF keycode = KEYMAN_LALT THEN [s EXCEPT !.lalt_pressed = TRUE]
    ELSE IF keycode = KEYMAN_RALT THEN [s EXCEPT !.ralt_pressed = TRUE]
    ELSE s

\* mutation: a tracked key also clears the latch of its opposite side
observe_exclusive(s, keycode, release) ==
    IF keycode = KEYMAN_LCTRL
    THEN [s EXCEPT !.lctrl_pressed = ~release, !.rctrl_pressed = FALSE]
    ELSE IF keycode = KEYMAN_RCTRL
    THEN [s EXCEPT !.rctrl_pressed = ~release, !.lctrl_pressed = FALSE]
    ELSE IF keycode = KEYMAN_LALT
    THEN [s EXCEPT !.lalt_pressed = ~release, !.ralt_pressed = FALSE]
    ELSE IF keycode = KEYMAN_RALT
    THEN [s EXCEPT !.ralt_pressed = ~release, !.lalt_pressed = FALSE]
    ELSE s

\* mutation: the switch comes after the returns for a key code that is out
\* of range or not mapped
observe_mappedonly(s, keycode, release) ==
    IF keycode < 0 \/ keycode > 255 THEN s
    ELSE IF keycode_to_vk(keycode) = 0 THEN s
    ELSE IF keycode = KEYMAN_LCTRL THEN [s EXCEPT !.lctrl_pressed = ~release]
    ELSE IF keycode = KEYMAN_RCTRL THEN [s EXCEPT !.rctrl_pressed = ~release]
    ELSE IF keycode = KEYMAN_LALT THEN [s EXCEPT !.lalt_pressed = ~release]
    ELSE IF keycode = KEYMAN_RALT THEN [s EXCEPT !.ralt_pressed = ~release]
    ELSE s

\* the switch on the key code: a tracked key sets its latch on press and
\* clears it on release
observe(s, keycode, release) ==
    IF keycode = KEYMAN_LCTRL THEN [s EXCEPT !.lctrl_pressed = ~release]
    ELSE IF keycode = KEYMAN_RCTRL THEN [s EXCEPT !.rctrl_pressed = ~release]
    ELSE IF keycode = KEYMAN_LALT THEN [s EXCEPT !.lalt_pressed = ~release]
    ELSE IF keycode = KEYMAN_RALT THEN [s EXCEPT !.ralt_pressed = ~release]
    ELSE s

\* mutation: the two Alt latches taken for each other
km_mod_state_swapped(s, states) ==
    (IF "Shift" \in states THEN {"SHIFT"} ELSE {})
    \cup (IF "Mod5" \in states THEN {"RALT"} ELSE {})
    \cup (IF "Mod1" \in states /\ s.lalt_pressed THEN {"RALT"} ELSE {})
    \cup (IF "Mod1" \in states /\ s.ralt_pressed THEN {"LALT"} ELSE {})
    \cup (IF "Ctrl" \in states /\ s.rctrl_pressed THEN {"RCTRL"} ELSE {})
    \cup (IF "Ctrl" \in states /\ s.lctrl_pressed THEN {"LCTRL"} ELSE {})

\* mutation: a Ctrl flag with no latch held falls back to the left Ctrl bit
km_mod_state_anyctrl(s, states) ==
    (IF "Shift" \in states THEN {"SHIFT"} ELSE {})
    \cup (IF "Mod5" \in states THEN {"RALT"} ELSE {})
    \cup (IF "Mod1" \in states /\ s.ralt_pressed THEN {"RALT"} ELSE {})
    \cup (IF "Mod1" \in states /\ s.lalt_pressed THEN {"LALT"} ELSE {})
    \cup (IF "Ctrl" \in states /\ s.rctrl_pressed THEN {"RCTRL"} ELSE {})
    \cup (IF "Ctrl" \in states /\ (s.lctrl_pressed \/ ~s.rctrl_pressed)
          THEN {"LCTRL"} ELSE {})

\* mutation: Mod5 resolved through the right Alt latch like Mod1
km_mod_state_mod5latched(s, states) ==
    (IF "Shift" \in states THEN {"SHIFT"} ELSE {})
    \cup (IF "Mod5" \in states /\ s.ralt_pressed THEN {"RALT"} ELSE {})
    \cup (IF "Mod1" \in states /\ s.ralt_pressed THEN {"RALT"} ELSE {})
    \cup (IF "Mod1" \in states /\ s.lalt_pressed THEN {"LALT"} ELSE {})
    \cup (IF "Ctrl" \in states /\ s.rctrl_pressed THEN {"RCTRL"} ELSE {})
    \cup (IF "Ctrl" \in states /\ s.lctrl_pressed THEN {"LCTRL"} ELSE {})

\* mutation: a held latch sets its bit whatever the states of the key
km_mod_state_unflagged(s, states) ==
    (IF "Shift" \in states THEN {"SHIFT"} ELSE {})
    \cup (IF "Mod5" \in states THEN {"RALT"} ELSE {})
    \cup (IF s.ralt_pressed THEN {"RALT"} ELSE {})
    \cup (IF s.lalt_pressed THEN {"LALT"} ELSE {})
    \cup (IF s.rctrl_pressed THEN {"RCTRL"} ELSE {})
    \cup (IF s.lctrl_pressed THEN {"LCTRL"} ELSE {})

\* km_mod_state, as the set of the KM_CORE_MODIFIER_ bits that are set
km_mod_state(s, states) ==
    (IF "Shift" \in states THEN {"SHIFT"} ELSE {})
    \cup (IF "Mod5" \in states THEN {"RALT"} ELSE {})
    \cup (IF "Mod1" \in states /\ s.ralt_pressed THEN {"RALT"} ELSE {})
    \cup (IF "Mod1" \in states /\ s.lalt_pressed THEN {"LALT"} ELSE {})
    \cup (IF "Ctrl" \in states /\ s.rctrl_pressed THEN {"RCTRL"} ELSE {})
    \cup (IF "Ctrl" \in states /\ s.lctrl_pressed THEN {"LCTRL"} ELSE {})

\* ------------------------------------------------------------ actions applied
\* mutation: the count itself as the offset
NegOffset_positive(n) == n

\* -numOfDelete of an unsigned int, passed as the int offset: the wrapped
\* value 2^32 - numOfDelete reads back as -numOfDelete for every count up to
\* 2^31, which covers the counts of the model
NegOffset(n) == 0 - n

\* mutation: a loop that stops one short
RECURSIVE forwardBackSpaces_short(_)
forwardBackSpaces_short(numOfDelete) ==
    IF numOfDelete <= 1 THEN <<>>
    ELSE << Call("forwardKey", <<"BackSpace">>) >>
         \o forwardBackSpaces_short(numOfDelete - 1)

\* while (numOfDelete) { forwardKey(BackSpace); numOfDelete -= 1; }
RECURSIVE forwardBackSpaces(_)
forwardBackSpaces(numOfDelete) ==
    IF numOfDelete = 0 THEN <<>>
    ELSE << Call("forwardKey", <<"BackSpace">>) >>
         \o forwardBackSpaces(numOfDelete - 1)

\* mutation: every deletion is carried out by the bridge
deleting_programmatic(key, h, numOfDelete) ==
    IF numOfDelete > 0
    THEN IF h.cap
         THEN [raw |-> FALSE,
               calls |-> << Call("deleteSurroundingText",
                                 <<0 - numOfDelete, numOfDelete>>) >>]
         ELSE [raw |-> FALSE, calls |-> forwardBackSpaces(numOfDelete)]
    ELSE [raw |-> FALSE, calls |-> <<>>]

\* the deleting step: raw is whether it sets emit_keystroke
deleting(key, h, numOfDelete) ==
    IF numOfDelete > 0
    THEN IF numOfDelete = 1 /\ checkBackSpace(key)
         THEN [raw |-> TRUE, calls |-> <<>>]
         ELSE IF h.cap
         THEN [raw |-> FALSE,
               calls |-> << Call("deleteSurroundingText",
                                 <<NegOffset(numOfDelete), numOfDelete>>) >>]
         ELSE [raw |-> FALSE, calls |-> forwardBackSpaces(numOfDelete)]
    ELSE [raw |-> FALSE, calls |-> <<>>]

\* the output string: UCS4ToUTF8 of every code point before the terminator
outputString(act) ==
    IF act.output_null THEN <<>> ELSE UntilNul(act.output)

\* mutation: the commit is made whatever the output
emitting_always(act) ==
    << Call("commitString", <<outputString(act)>>) >>

emitting(act) ==
    LET output == outputString(act) IN
    IF output # <<>> THEN << Call("commitString", <<output>>) >> ELSE <<>>

\* mutation: the member flag is left set
accepting_sticky(act, emit) ==
    IF act.emit_keystroke \/ emit
    THEN [filtered |-> FALSE, emit |-> emit, calls |-> <<>>]
    ELSE [filtered |-> TRUE, emit |-> emit,
          calls |-> << Call("filterAndAccept", <<>>) >>]

\* mutation: the member flag is cleared only when the core did not ask
\* for the keystroke itself
accepting_coreonly(act, emit) ==
    IF act.emit_keystroke \/ emit
    THEN [filtered |-> FALSE,
          emit |-> IF act.emit_keystroke THEN emit ELSE FALSE,
          calls |-> <<>>]
    ELSE [filtered |-> TRUE, emit |-> emit,
          calls |-> << Call("filterAndAccept", <<>>) >>]

\* emit is the member flag when the decision is taken: leave the event to
\* the host, or filterAndAccept
accepting(act, emit) ==
    IF act.emit_keystroke \/ emit
    THEN [filtered |-> FALSE, emit |-> FALSE, calls |-> <<>>]
    ELSE [filtered |-> TRUE, emit |-> emit,
          calls |-> << Call("filterAndAccept", <<>>) >>]

\* for (i = 0; persist_options[i].scope; i++)
RECURSIVE persisting(_, _, _)
persisting(options, i, acc) ==
    IF options[i].scope = 0 THEN acc
    ELSE IF ~options[i].key_null /\ ~options[i].value_null
    THEN LET r == setOption(acc.config, options[i].key, options[i].value) IN
         persisting(options, i + 1,
                    [config |-> r.config, calls |-> acc.calls \o r.calls])
    ELSE persisting(options, i + 1, acc)

Init ==
    /\ kbd = [k \in AllKBs |->
                [loaded_ |-> FALSE, keyboard_ |-> FALSE, registered |-> FALSE,
                 config_ |-> {}, file |-> {}]]
    /\ ics = {}
    /\ host = [i \in AllICs |-> InvalidHost(FALSE)]
    /\ prop = [p \in AllKBs \X AllICs |-> NoProperty]
    /\ emit_keystroke = FALSE
    /\ core = [p \in AllKBs \X AllICs |-> NoCore]
    /\ timestamp_ = 0
    /\ last = [p \in AllKBs \X AllICs |-> NoEvents]
    /\ ev = Event("init", "k1", "ic1", NoKey, NoActions, "none", <<>>,
                  FALSE, FALSE)

\* ------------------------------------------------------------ handlers
\* mutation: an activate that loads and does not refresh
Activate_norefresh(kb, ic, outcome, registers, created) ==
    /\ ic \in ics
    /\ LET L == load(kb, outcome, registers, created)
           keyman == state(L.d, L.p, kb, ic)
       IN  /\ kbd' = [kbd EXCEPT ![kb] = L.d]
           /\ prop' = L.p
           /\ core' = allocated(core, L.made)
           /\ ev' = Event("activate", kb, ic, NoKey, NoActions,
                          IF keyman THEN "done" ELSE "inert",
                          L.calls, FALSE, FALSE)
    /\ UNCHANGED <<ics, host, emit_keystroke>>

\* KeymanEngine::activate
Activate(kb, ic, outcome, registers, created) ==
    /\ ic \in ics
    /\ LET L == load(kb, outcome, registers, created)
           keyman == state(L.d, L.p, kb, ic)
           r == IF keyman THEN updateContext(L.p[<<kb, ic>>], host[ic])
                ELSE Ran(L.p[<<kb, ic>>], <<>>)
       IN  /\ kbd' = [kbd EXCEPT ![kb] = L.d]
           /\ prop' = [L.p EXCEPT ![<<kb, ic>>] = r.s]
           /\ core' = allocated(core, L.made)
           /\ ev' = Event("activate", kb, ic, NoKey, NoActions,
                          IF keyman THEN "done" ELSE "inert",
                          L.calls \o r.calls, FALSE, FALSE)
    /\ UNCHANGED <<ics, host, emit_keystroke>>

\* mutation: the action items are searched for the marker that invalidates
\* the context, and the context is cleared when it is found
applyActions_invalidating(kb, ic, key, act, s, before) ==
    LET h == host[ic]
        D == deleting(key, h, act.code_points_to_delete)
        E == emitting(act)
        A == accepting(act, emit_keystroke \/ D.raw)
        P == persisting(act.persist_options, 1,
                        [config |-> kbd[kb].config_, calls |-> <<>>])
        marked == IF "invalidate_context" \in DOMAIN act
                  THEN act.invalidate_context ELSE FALSE
        C == IF marked THEN clearContext(s) ELSE Ran(s, <<>>)
    IN  /\ prop' = [prop EXCEPT ![<<kb, ic>>] = C.s]
        /\ emit_keystroke' = A.emit
        /\ kbd' = [kbd EXCEPT ![kb].config_ = P.config,
                              ![kb].file = IF P.calls = <<>> THEN @
                                           ELSE P.config]
        /\ ev' = Event("keyEvent", kb, ic, key, act, "processed",
                       before \o D.calls \o E \o A.calls \o P.calls
                         \o C.calls,
                       A.filtered, D.raw)

\* mutation: the options are persisted before the text is deleted
applyActions_persistfirst(kb, ic, key, act, s, before) ==
    LET h == host[ic]
        D == deleting(key, h, act.code_points_to_delete)
        E == emitting(act)
        A == accepting(act, emit_keystroke \/ D.raw)
        P == persisting(act.persist_options, 1,
                        [config |-> kbd[kb].config_, calls |-> <<>>])
    IN  /\ prop' = [prop EXCEPT ![<<kb, ic>>] = s]
        /\ emit_keystroke' = A.emit
        /\ kbd' = [kbd EXCEPT ![kb].config_ = P.config,
                              ![kb].file = IF P.calls = <<>> THEN @
                                           ELSE P.config]
        /\ ev' = Event("keyEvent", kb, ic, key, act, "processed",
                       before \o P.calls \o D.calls \o E \o A.calls,
                       A.filtered, D.raw)

\* mutation: the text is deleted before the event is submitted
applyActions_deletefirst(kb, ic, key, act, s, before) ==
    LET h == host[ic]
        D == deleting(key, h, act.code_points_to_delete)
        E == emitting(act)
        A == accepting(act, emit_keystroke \/ D.raw)
        P == persisting(act.persist_options, 1,
                        [config |-> kbd[kb].config_, calls |-> <<>>])
    IN  /\ prop' = [prop EXCEPT ![<<kb, ic>>] = s]
        /\ emit_keystroke' = A.emit
        /\ kbd' = [kbd EXCEPT ![kb].config_ = P.config,
                              ![kb].file = IF P.calls = <<>> THEN @
                                           ELSE P.config]
        /\ ev' = Event("keyEvent", kb, ic, key, act, "processed",
                       D.calls \o before \o E \o A.calls \o P.calls,
                       A.filtered, D.raw)

\* the part of keyEvent after km_core_process_event: the actions applied
applyActions(kb, ic, key, act, s, before) ==
    LET h == host[ic]
        D == deleting(key, h, act.code_points_to_delete)
        E == emitting(act)
        A == accepting(act, emit_keystroke \/ D.raw)
        P == persisting(act.persist_options, 1,
                        [config |-> kbd[kb].config_, calls |-> <<>>])
    IN  /\ prop' = [prop EXCEPT ![<<kb, ic>>] = s]
        /\ emit_keystroke' = A.emit
        /\ kbd' = [kbd EXCEPT ![kb].config_ = P.config,
                              ![kb].file = IF P.calls = <<>> THEN @
                                           ELSE P.config]
        /\ ev' = Event("keyEvent", kb, ic, key, act, "processed",
                       before \o D.calls \o E \o A.calls \o P.calls,
                       A.filtered, D.raw)

\* KeymanEngine::keyEvent; act is what km_core_state_get_actions returns
\* for this event
KeyEvent(kb, ic, key, act) ==
    /\ ic \in ics
    /\ UNCHANGED <<ics, host, core>>
    /\ IF ~state(kbd[kb], prop, kb, ic)
       THEN /\ ev' = Event("keyEvent", kb, ic, key, NoActions, "inert",
                           <<>>, FALSE, FALSE)
            /\ UNCHANGED <<kbd, prop, emit_keystroke>>
       ELSE LET keycode == key.code - 8
                s1 == observe(prop[<<kb, ic>>], keycode, key.release)
            IN
            IF keycode < 0 \/ keycode > 255
            THEN /\ prop' = [prop EXCEPT ![<<kb, ic>>] = s1]
                 /\ ev' = Event("keyEvent", kb, ic, key, NoActions, "range",
                                <<>>, FALSE, FALSE)
                 /\ UNCHANGED <<kbd, emit_keystroke>>
            ELSE IF keycode_to_vk(keycode) = 0
            THEN LET c == IF isCursorMove(key) THEN clearContext(s1)
                          ELSE Ran(s1, <<>>)
                     r == IF isCursorMove(key) THEN updateContext(c.s, host[ic])
                          ELSE Ran(s1, <<>>)
                 IN  /\ prop' = [prop EXCEPT ![<<kb, ic>>] = r.s]
                     /\ ev' = Event("keyEvent", kb, ic, key, NoActions,
                                    "unmapped", c.calls \o r.calls,
                                    FALSE, FALSE)
                     /\ UNCHANGED <<kbd, emit_keystroke>>
            ELSE LET mod == km_mod_state(s1, key.states)
                     r == IF SurroundingUsable(host[ic])
                          THEN updateContext(s1, host[ic]) ELSE Ran(s1, <<>>)
                     s2 == [r.s EXCEPT !.edited = TRUE]
                     before == r.calls \o
                               << Call("process_event",
                                       <<keycode_to_vk(keycode), mod,
                                         ~key.release>>),
                                  Call("get_actions", <<>>) >>
                 IN  applyActions(kb, ic, key, act, s2, before)

\* mutation: the reset reaches every session of the keyboard
Reset_keyboardwide(kb, ic) ==
    /\ ic \in ics
    /\ IF ~state(kbd[kb], prop, kb, ic)
       THEN /\ ev' = Event("reset", kb, ic, NoKey, NoActions, "inert", <<>>,
                           FALSE, FALSE)
            /\ UNCHANGED prop
       ELSE LET c == clearContext(prop[<<kb, ic>>]) IN
            /\ prop' = [p \in DOMAIN prop |->
                          IF p[1] = kb /\ prop[p].state
                          THEN resetLatches(clearContext(prop[p]).s)
                          ELSE prop[p]]
            /\ ev' = Event("reset", kb, ic, NoKey, NoActions, "done",
                           c.calls, FALSE, FALSE)
    /\ UNCHANGED <<kbd, ics, host, emit_keystroke, core>>

\* KeymanEngine::reset
Reset(kb, ic) ==
    /\ ic \in ics
    /\ IF ~state(kbd[kb], prop, kb, ic)
       THEN /\ ev' = Event("reset", kb, ic, NoKey, NoActions, "inert", <<>>,
                           FALSE, FALSE)
            /\ UNCHANGED prop
       ELSE LET c == clearContext(prop[<<kb, ic>>]) IN
            /\ prop' = [prop EXCEPT ![<<kb, ic>>] = resetLatches(c.s)]
            /\ ev' = Event("reset", kb, ic, NoKey, NoActions, "done",
                           c.calls, FALSE, FALSE)
    /\ UNCHANGED <<kbd, ics, host, emit_keystroke, core>>

\* ------------------------------------------------------------ the host
\* The host creates an input context: no capability and no surrounding text
\* yet; every registered factory creates its property
RECURSIVE CreateFor(_, _, _, _)
CreateFor(kbs, ic, created, acc) ==
    IF kbs = {} THEN acc
    ELSE LET kb == CHOOSE k \in kbs : TRUE
             r == KeymanStateNew(InvalidHost(FALSE), created[kb])
         IN  CreateFor(kbs \ {kb}, ic, created,
                       IF kbd[kb].registered
                       THEN [p |-> [acc.p EXCEPT ![<<kb, ic>>] = r.s],
                             calls |-> acc.calls \o r.calls,
                             made |-> acc.made \cup
                                      (IF r.s.state THEN {<<kb, ic>>}
                                       ELSE {})]
                       ELSE acc)

CreateInputContext(ic, created) ==
    /\ ic \notin ics
    /\ ics' = ics \cup {ic}
    /\ host' = [host EXCEPT ![ic] = InvalidHost(FALSE)]
    /\ LET r == CreateFor(AllKBs, ic, created,
                          [p |-> prop, calls |-> <<>>, made |-> {}])
       IN  /\ prop' = r.p
           /\ core' = allocated(core, r.made)
           /\ ev' = Event("createIC", "k1", ic, NoKey, NoActions, "done",
                          r.calls, FALSE, FALSE)
    /\ UNCHANGED <<kbd, emit_keystroke>>

\* The host destroys an input context and with it its properties: the
\* KeymanState objects go (the class declares no destructor), the
\* km_core_state each holds is disposed by no one
DestroyInputContext(ic) ==
    /\ ic \in ics
    /\ ics' = ics \ {ic}
    /\ host' = [host EXCEPT ![ic] = InvalidHost(FALSE)]
    /\ prop' = [p \in AllKBs \X AllICs |->
                  IF p[2] = ic THEN NoProperty ELSE prop[p]]
    /\ core' = [p \in AllKBs \X AllICs |->
                  IF p[2] = ic
                  THEN [live |-> 0,
                        orphaned |-> core[p].orphaned \/ core[p].live > 0]
                  ELSE core[p]]
    /\ ev' = Event("destroyIC", "k1", ic, NoKey, NoActions, "done", <<>>,
                   FALSE, FALSE)
    /\ UNCHANGED <<kbd, emit_keystroke>>

\* The client reports a capability or a surrounding text
HostUpdate(ic, h) ==
    /\ ic \in ics
    /\ h # host[ic]
    /\ host' = [host EXCEPT ![ic] = h]
    /\ ev' = Event("host", "k1", ic, NoKey, NoActions, "done", <<>>,
                   FALSE, FALSE)
    /\ UNCHANGED <<kbd, ics, prop, emit_keystroke, core>>

\* ------------------------------------------------------------ inputs
Text(L) == [i \in 1..L |-> Alphabet[((i - 1) % Len(Alphabet)) + 1]]

ValidHost(cap, L, anchor, cursor) ==
    [cap |-> cap, valid |-> TRUE, text |-> Text(L), anchor |-> anchor,
     cursor |-> cursor]

\* a key event: code is key().code(), sym the symbol of key(), states the
\* modifier states (the keys drawn are those for which key() and rawKey()
\* report the same states)
Key(code, sym, states, release) ==
    [code |-> code, sym |-> sym, states |-> states, release |-> release]

\* X11 key codes: the kernel code plus 8
KeyA == Key(38, "a", {}, FALSE)
KeyLeft == Key(113, "Left", {}, FALSE)
KeyBackSpace == Key(22, "BackSpace", {}, FALSE)

\* host texts around the window bound, anchors and cursors inside them
TextLens == {0, 2, MaxTextLen}
Positions == {0, 2, MAXCONTEXT_ITEMS, MAXCONTEXT_ITEMS + 1, MaxTextLen}

HostsCtx ==
    {InvalidHost(cap) : cap \in BOOLEAN}
    \cup {ValidHost(cap, t[1], t[2], t[3]) :
            cap \in BOOLEAN,
            t \in {u \in TextLens \X Positions \X Positions :
                     u[2] <= u[1] /\ u[3] <= u[1]}}

KeysCtx == {KeyA, KeyLeft, Key(0, "None", {}, FALSE)}

ActsCtx == {Actions(0, FALSE, <<945, 0>>, FALSE, <<OptionsEnd>>)}

\* hosts with and without the capability, with and without a valid text
HostsAct ==
    {InvalidHost(cap) : cap \in BOOLEAN}
    \cup {ValidHost(cap, 2, 2, 2) : cap \in BOOLEAN}

KeysAct ==
    {KeyA, KeyBackSpace, Key(22, "BackSpace", {"Ctrl"}, FALSE), KeyLeft,
     Key(38, "a", {}, TRUE)}

\* persist_options arrays: none, and x = y
OptionXY == OptionItem(1, FALSE, <<120>>, FALSE, <<121>>)
PersistLists == { <<OptionsEnd>>, <<OptionXY, OptionsEnd>> }

\* output arrays: a null pointer, the terminator alone, two code points
Outputs == { [null |-> TRUE, cps |-> <<>>], [null |-> FALSE, cps |-> <<0>>],
             [null |-> FALSE, cps |-> <<128512, 945, 0>>] }

ActsAct ==
    { Actions(n, o.null, o.cps, e, p) :
        n \in 0..MaxDelete, o \in Outputs, e \in BOOLEAN, p \in PersistLists }

\* two keyboards, two input contexts
HostsSess == {InvalidHost(FALSE), ValidHost(TRUE, 2, 2, 2)}

KeysSess == {KeyLeft}

ActsSess == {Actions(2, FALSE, <<945, 0>>, FALSE, <<OptionsEnd>>)}

\* the four keys whose press and release the latches follow, pressed or
\* released
LatchCodes == {KEYMAN_LCTRL, KEYMAN_RCTRL, KEYMAN_LALT, KEYMAN_RALT}

LatchSym(keycode) ==
    IF keycode = KEYMAN_LCTRL THEN "Control_L"
    ELSE IF keycode = KEYMAN_RCTRL THEN "Control_R"
    ELSE IF keycode = KEYMAN_LALT THEN "Alt_L"
    ELSE "Alt_R"

LatchKeys ==
    {Key(c + 8, LatchSym(c), {}, rel) : c \in LatchCodes, rel \in BOOLEAN}

\* the states of rawKey() the mask is built from
ModStates == SUBSET {"Shift", "Mod1", "Ctrl", "Mod5"}

\* the latch keys, a mapped key under every combination of the states, pressed
\* and released, and with states the mask does not look at, a cursor key, and
\* two key codes outside the table
KeysMod ==
    LatchKeys
    \cup {Key(38, "a", st, rel) : st \in ModStates, rel \in BOOLEAN}
    \cup {Key(38, "a", st \cup {"CapsLock", "NumLock", "Super"}, FALSE) :
            st \in ModStates}
    \cup {KeyLeft, Key(0, "None", {}, FALSE), Key(300, "None", {}, FALSE)}

HostsMod == {ValidHost(TRUE, 2, 2, 2)}

ActsMod == {NoActions}

\* option triples: x = y, a null key, a null value, an empty key, a key
\* that is a lone high surrogate, a value that is a lone low surrogate, an
\* empty value
OptionTriples ==
    { OptionXY,
      OptionItem(1, TRUE, <<>>, FALSE, <<121>>),
      OptionItem(1, FALSE, <<118>>, TRUE, <<>>),
      OptionItem(1, FALSE, <<>>, FALSE, <<121>>),
      OptionItem(1, FALSE, <<55296>>, FALSE, <<121>>),
      OptionItem(1, FALSE, <<122>>, FALSE, <<56320>>),
      OptionItem(1, FALSE, <<119>>, FALSE, <<>>) }

\* persist_options arrays of up to MaxOptions triples and the terminator
MaxOptions == 2

OptionLists ==
    UNION { { l \o <<OptionsEnd>> : l \in [1..n -> OptionTriples] } :
            n \in 0..MaxOptions }

\* the answers of the core for the option specification: an array of
\* options, and whether the action items of the core (which keyEvent does
\* not query) hold KM_CORE_IT_INVALIDATE_CONTEXT
ActsOpt ==
    { [invalidate_context |-> m] @@ Actions(0, TRUE, <<>>, FALSE, l) :
        m \in BOOLEAN, l \in OptionLists }

\* what the environment decides during a load: how far it gets, whether the
\* factory is registered, which sessions km_core_state_create creates (each
\* choice is listed once: a later one is not drawn when an earlier one
\* ends the load)
LoadInput(outcome, registers, created) ==
    [outcome |-> outcome, registers |-> registers, created |-> created]

AllCreated == [ic \in AllICs |-> TRUE]

LoadInputs(Outcomes) ==
    {LoadInput(o, TRUE, AllCreated) : o \in Outcomes \ {"ok"}}
    \cup (IF "ok" \in Outcomes
          THEN {LoadInput("ok", FALSE, AllCreated)}
               \cup {LoadInput("ok", TRUE, c) : c \in [AllICs -> BOOLEAN]}
          ELSE {})

\* activate under one choice of the environment (one choice stands for all
\* when the keyboard is loaded already and none is looked at)
ActivateWith(kb, ic, in) ==
    /\ kbd[kb].loaded_ => in = LoadInput("ok", TRUE, AllCreated)
    /\ Activate(kb, ic, in.outcome, in.registers, in.created)

\* ------------------------------------------------------------ specifications
\* the handlers of the engine on its sessions and the events of the host
Handlers(KBs, ICs, Hosts, Outcomes, Keys, Acts) ==
    \/ \E ic \in ICs, created \in [AllKBs -> BOOLEAN] :
          CreateInputContext(ic, created)
    \/ \E ic \in ICs : DestroyInputContext(ic)
    \/ \E ic \in ICs, h \in Hosts : HostUpdate(ic, h)
    \/ \E kb \in KBs, ic \in ICs, in \in LoadInputs(Outcomes) :
          ActivateWith(kb, ic, in)
    \/ \E kb \in KBs, ic \in ICs, key \in Keys, act \in Acts :
          KeyEvent(kb, ic, key, act)
    \/ \E kb \in KBs, ic \in ICs : Reset(kb, ic)

NextOver(KBs, ICs, Hosts, Outcomes, Keys, Acts) ==
    /\ Handlers(KBs, ICs, Hosts, Outcomes, Keys, Acts)
    /\ UNCHANGED <<timestamp_, last>>

\* the history of a session after an event for the key code
Recorded(l, keycode, release) ==
    LET what == IF release THEN "release" ELSE "press" IN
    [lctrl_pressed |-> IF keycode = KEYMAN_LCTRL THEN what
                       ELSE l.lctrl_pressed,
     rctrl_pressed |-> IF keycode = KEYMAN_RCTRL THEN what
                       ELSE l.rctrl_pressed,
     lalt_pressed |-> IF keycode = KEYMAN_LALT THEN what ELSE l.lalt_pressed,
     ralt_pressed |-> IF keycode = KEYMAN_RALT THEN what ELSE l.ralt_pressed]

\* the history of the step: a pair without a session, or whose session the
\* step created, has no event; the session a reset was delivered to has
\* none; the session a key event was delivered to has that event for its
\* key code
Remember ==
    last' = [p \in DOMAIN last |->
               IF ~prop'[p].state \/ ~prop[p].state THEN NoEvents
               ELSE IF <<ev'.kb, ev'.ic>> # p \/ ev'.path = "inert"
               THEN last[p]
               ELSE IF ev'.op = "reset" THEN NoEvents
               ELSE IF ev'.op = "keyEvent"
               THEN Recorded(last[p], ev'.key.code - 8, ev'.key.release)
               ELSE last[p]]

\* one keyboard and one input context, host texts around the window bound
NextCtx ==
    NextOver({"k1"}, {"ic1"}, HostsCtx, {"ok", "noload"}, KeysCtx, ActsCtx)

SpecCtx == Init /\ [][NextCtx]_vars

\* one keyboard and one input context, every shape of the core's answer
Next ==
    NextOver({"k1"}, {"ic1"}, HostsAct, LoadOutcomes, KeysAct, ActsAct)

Spec == Init /\ [][Next]_vars

\* one keyboard and one input context, the latch keys and the modifier
\* states
NextMod ==
    NextOver({"k1"}, {"ic1"}, HostsMod, {"ok"}, KeysMod, ActsMod)

SpecMod == Init /\ [][NextMod]_vars

\* one keyboard and one input context, a mapped key, every array of options
NextOpt ==
    NextOver({"k1"}, {"ic1"}, HostsMod, {"ok"}, {KeyA}, ActsOpt)

SpecOpt == Init /\ [][NextOpt]_vars

\* two keyboards and two input contexts, loads that succeed and loads that
\* fail
NextSess ==
    NextOver(AllKBs, AllICs, HostsSess, {"ok", "noload"}, KeysSess, ActsSess)

SpecSess == Init /\ [][NextSess]_vars

\* ------------------------------------------------------------ transcoding
\* the transcoder on its own: a text or a range of units is drawn, and the
\* functions are applied to it
MaxStrLen == 3

\* characters of a text as utf8::validate and the character range see
\* them: U+0000, the ends of the one-unit and two-unit ranges, and the
\* invalid ones (bytes that decode to nothing, surrogates, 0x110000)
CodePoints ==
    {0, 97, 945, 55295, 57344, 65535, 65536, 128512, 1114111,
     0 - 1, 55296, 57343, 1114112}

\* units of a range: the ends of the two surrogate blocks and their
\* neighbours
Units == {97, 55295, 55296, 56319, 56320, 57343, 57344}

Strings(S) == UNION { [1..n -> S] : n \in 0..MaxStrLen }

Codec(op, str, units, out) ==
    [op |-> op, str |-> str, units |-> units, out |-> out]

InitCodec ==
    /\ kbd = [k \in AllKBs |->
                [loaded_ |-> FALSE, keyboard_ |-> FALSE, registered |-> FALSE,
                 config_ |-> {}, file |-> {}]]
    /\ ics = {}
    /\ host = [i \in AllICs |-> InvalidHost(FALSE)]
    /\ prop = [p \in AllKBs \X AllICs |-> NoProperty]
    /\ emit_keystroke = FALSE
    /\ core = [p \in AllKBs \X AllICs |-> NoCore]
    /\ timestamp_ = 0
    /\ last = [p \in AllKBs \X AllICs |-> NoEvents]
    /\ \/ \E str \in Strings(CodePoints) : ev = Codec("text", str, <<>>, <<>>)
       \/ \E units \in Strings(Units) : ev = Codec("range", <<>>, units, <<>>)

\* utf8ToUTF16 applied to the text
ToUTF16 ==
    /\ ev.op = "text"
    /\ ev' = Codec("utf8ToUTF16", ev.str, utf8ToUTF16(ev.str), <<>>)
    /\ UNCHANGED <<kbd, ics, host, prop, emit_keystroke, core, timestamp_,
                   last>>

\* utf16ToUTF8 applied to the buffer utf8ToUTF16 returned, delimited as the
\* callers of the buffer delimit it: up to its terminating 0
BackToUTF8 ==
    /\ ev.op = "utf8ToUTF16"
    /\ ev' = Codec("roundtrip", ev.str, ev.units,
                   utf16ToUTF8(UntilNul(ev.units)))
    /\ UNCHANGED <<kbd, ics, host, prop, emit_keystroke, core, timestamp_,
                   last>>

\* utf16ToUTF8 applied to the range
ToUTF8 ==
    /\ ev.op = "range"
    /\ ev' = Codec("utf16ToUTF8", <<>>, ev.units, utf16ToUTF8(ev.units))
    /\ UNCHANGED <<kbd, ics, host, prop, emit_keystroke, core, timestamp_,
                   last>>

NextCodec == ToUTF16 \/ BackToUTF8 \/ ToUTF8

SpecCodec == InitCodec /\ [][NextCodec]_vars

\* ------------------------------------------------------------ catalogue
\* version strings "1", "10" and "9" as their characters; std::string
\* operator< compares them character by character
Version1 == <<49>>
Version10 == <<49, 48>>
Version9 == <<57>>

StringLess(a, b) ==
    \E k \in 0..Min(Len(a), Len(b)) :
        /\ \A i \in 1..k : a[i] = b[i]
        /\ \/ k = Len(a) /\ k < Len(b)
           \/ k < Len(a) /\ k < Len(b) /\ a[k + 1] < b[k + 1]

\* a map updated or extended at one key
Put(map, key, value) ==
    [k \in DOMAIN map \cup {key} |-> IF k = key THEN value ELSE map[k]]

EmptyMap == [k \in {} |-> 0]

\* an entry of the "keyboards" array of kmp.json
KeyboardJson(id, name, version) ==
    [id |-> id, name |-> name, version |-> version]

\* a kmp.json: whether it parses, the names of its "files" array, its
\* "keyboards" array
Package(parses, files, keyboards) ==
    [parses |-> parses, files |-> files, keyboards |-> keyboards]

\* mutation: the loop over the keyboards ends at the first record that is
\* dropped
RECURSIVE KmpKeyboards_abandoning(_, _, _, _)
KmpKeyboards_abandoning(files_, keyboards, i, keyboards_) ==
    IF i > Len(keyboards) THEN keyboards_
    ELSE LET file == keyboards[i] IN
         IF file.id = "" THEN keyboards_
         ELSE IF (file.id \o ".kmx") \notin files_ THEN keyboards_
         ELSE KmpKeyboards_abandoning(files_, keyboards, i + 1,
                  Put(keyboards_, file.id,
                      [id |-> file.id,
                       name |-> IF file.name = "" THEN file.id ELSE file.name,
                       version |-> file.version]))

\* KmpMetadata::KmpMetadata, the loop over the "keyboards" array
RECURSIVE KmpKeyboards(_, _, _, _)
KmpKeyboards(files_, keyboards, i, keyboards_) ==
    IF i > Len(keyboards) THEN keyboards_
    ELSE LET file == keyboards[i] IN
         IF file.id = ""
         THEN KmpKeyboards(files_, keyboards, i + 1, keyboards_)
         ELSE IF (file.id \o ".kmx") \notin files_
         THEN KmpKeyboards(files_, keyboards, i + 1, keyboards_)
         ELSE KmpKeyboards(files_, keyboards, i + 1,
                  Put(keyboards_, file.id,
                      [id |-> file.id,
                       name |-> IF file.name = "" THEN file.id ELSE file.name,
                       version |-> file.version]))

\* KmpMetadata::KmpMetadata on a kmp.json that parses: keyboards_
KmpMetadata(package) ==
    LET files_ == {name \in package.files : name # ""} IN
    KmpKeyboards(files_, package.keyboards, 1, EmptyMap)

\* the body of the loop over metadata.keyboards(): the ids of a map are
\* distinct, so the order of its iteration does not show
MergeKeyboards(keyboards, metadata, dir) ==
    [id \in DOMAIN keyboards \cup DOMAIN metadata |->
        IF id \notin DOMAIN metadata THEN keyboards[id]
        ELSE IF /\ id \in DOMAIN keyboards
                /\ StringLess(keyboards[id].version, metadata[id].version)
        THEN keyboards[id]
        ELSE [id |-> id, version |-> metadata[id].version,
              baseDir |-> dir, name |-> metadata[id].name]]

\* KeymanEngine::listInputMethods: the kmp.json files in the order they are
\* opened; one that does not parse throws and is passed over
RECURSIVE listInputMethods(_, _, _)
listInputMethods(packages, i, keyboards) ==
    IF i > Len(packages) THEN keyboards
    ELSE IF ~packages[i].parses
    THEN listInputMethods(packages, i + 1, keyboards)
    ELSE listInputMethods(packages, i + 1,
             MergeKeyboards(keyboards, KmpMetadata(packages[i]), i))

\* the entries of "keyboards" arrays: an empty id, one id at three
\* versions, a second id
KeyboardJsons ==
    { KeyboardJson("", "", Version1),
      KeyboardJson("a", "", Version1),
      KeyboardJson("a", "A", Version10),
      KeyboardJson("a", "", Version9),
      KeyboardJson("b", "", Version1) }

MaxKeyboards == 2

FileLists == { {}, {"a.kmx"}, {"a.kmx", "b.kmx", ""} }

Packages ==
    { Package(FALSE, {}, <<>>) }
      \cup { Package(TRUE, f, k) :
               f \in FileLists,
               k \in UNION { [1..n -> KeyboardJsons] : n \in 0..MaxKeyboards } }

CatalogEvent(op, packages, metadata, keyboards) ==
    [op |-> op, packages |-> packages, metadata |-> metadata,
     keyboards |-> keyboards]

\* two package directories, visited first and second
InitCatalog ==
    /\ kbd = [k \in AllKBs |->
                [loaded_ |-> FALSE, keyboard_ |-> FALSE, registered |-> FALSE,
                 config_ |-> {}, file |-> {}]]
    /\ ics = {}
    /\ host = [i \in AllICs |-> InvalidHost(FALSE)]
    /\ prop = [p \in AllKBs \X AllICs |-> NoProperty]
    /\ emit_keystroke = FALSE
    /\ core = [p \in AllKBs \X AllICs |-> NoCore]
    /\ timestamp_ = 0
    /\ last = [p \in AllKBs \X AllICs |-> NoEvents]
    /\ \E first \in Packages, second \in Packages :
          ev = CatalogEvent("packages", <<first, second>>, <<>>, EmptyMap)

\* the greatest of a time and the times of a sequence
RECURSIVE LatestTime(_, _)
LatestTime(t, times) ==
    IF times = <<>> THEN t
    ELSE LatestTime(IF t < Head(times) THEN Head(times) ELSE t, Tail(times))

\* KeymanEngine::listInputMethods on the kmp.json files packages, modified
\* at the times mtimes: timestamp_ is raised to the latest of them before
\* each is parsed
ListInputMethods(packages, mtimes) ==
    /\ ev' = CatalogEvent("listInputMethods", packages,
                          [i \in 1..Len(packages) |->
                             IF packages[i].parses
                             THEN KmpMetadata(packages[i]) ELSE EmptyMap],
                          listInputMethods(packages, 1, EmptyMap))
    /\ timestamp_' = LatestTime(timestamp_, mtimes)
    /\ UNCHANGED <<kbd, ics, host, prop, emit_keystroke, core, last>>

\* mutation: the check records the time of the latest file it saw
CheckUpdate_stamping(mtimes) ==
    /\ ev' = [hasUpdate |-> \E i \in 1..Len(mtimes) : timestamp_ < mtimes[i],
              mtimes |-> mtimes]
               @@ Event("checkUpdate", "k1", "ic1", NoKey, NoActions, "none",
                        <<>>, FALSE, FALSE)
    /\ timestamp_' = LatestTime(timestamp_, mtimes)
    /\ UNCHANGED <<kbd, ics, host, prop, emit_keystroke, core, last>>

\* the handler of EventType::CheckUpdate on kmp.json files modified at the
\* times mtimes: the event is flagged at the first file that is newer than
\* timestamp_
CheckUpdate(mtimes) ==
    /\ ev' = [hasUpdate |-> \E i \in 1..Len(mtimes) : timestamp_ < mtimes[i],
              mtimes |-> mtimes]
               @@ Event("checkUpdate", "k1", "ic1", NoKey, NoActions, "none",
                        <<>>, FALSE, FALSE)
    /\ UNCHANGED <<kbd, ics, host, prop, emit_keystroke, core, timestamp_,
                   last>>

\* the first kmp.json the later modified
NextCatalog ==
    /\ ev.op = "packages"
    /\ ListInputMethods(ev.packages, <<2, 1>>)

SpecCatalog == InitCatalog /\ [][NextCatalog]_vars

\* a mapped key, BackSpace, the left-Alt key pressed and a cursor key
KeysTwo ==
    {KeyA, KeyBackSpace, Key(KEYMAN_LALT + 8, "Alt_L", {}, FALSE), KeyLeft}

\* the core asks for nothing, or for one deletion and one character, with
\* and without the keystroke
ActsTwo ==
    {NoActions}
      \cup {Actions(1, FALSE, <<945, 0>>, e, <<OptionsEnd>>) : e \in BOOLEAN}

\* one keyboard used by two input contexts
NextTwo == NextOver({"k1"}, AllICs, HostsMod, {"ok"}, KeysTwo, ActsTwo)

SpecTwo == Init /\ [][NextTwo]_vars

\* the latch keys pressed and released, a mapped key, a cursor key and a
\* key code outside the table
KeysLatch ==
    LatchKeys \cup {KeyA, KeyLeft, Key(300, "None", {}, FALSE)}

\* one keyboard and one input context, with the history of the events for
\* the four keys
NextLatch ==
    /\ Handlers({"k1"}, {"ic1"}, HostsMod, {"ok"}, KeysLatch, ActsMod)
    /\ Remember
    /\ UNCHANGED timestamp_

SpecLatch == Init /\ [][NextLatch]_vars

\* modification times of kmp.json files
MaxMtime == 2

Mtimes == 1..MaxMtime

\* the times of the kmp.json files a check finds: none, one or two files
MtimeLists ==
    {<<>>} \cup {<<t>> : t \in Mtimes} \cup {<<t, u>> : t, u \in Mtimes}

\* the two kmp.json files an enumeration finds beside a live session
PackagesUpd ==
    << Package(TRUE, {"a.kmx"}, <<KeyboardJson("a", "", Version1)>>),
       Package(FALSE, {}, <<>>) >>

\* a mapped key and the left-Alt key, pressed
KeysUpd == {KeyA, Key(KEYMAN_LALT + 8, "Alt_L", {}, FALSE)}

\* one keyboard and one input context, with the enumeration of the
\* keyboards and the periodic check for updates
NextUpd ==
    \/ NextOver({"k1"}, {"ic1"}, HostsMod, {"ok"}, KeysUpd, ActsMod)
    \/ \E mtimes \in [1..Len(PackagesUpd) -> Mtimes] :
          ListInputMethods(PackagesUpd, mtimes)
    \/ \E mtimes \in MtimeLists : CheckUpdate(mtimes)

SpecUpd == Init /\ [][NextUpd]_vars

\* ------------------------------------------------------------ properties
\* the names of the calls of the last handler, in order
CallNames == [i \in 1..Len(ev.calls) |-> ev.calls[i].f]

Has(f) == \E i \in 1..Len(ev.calls) : ev.calls[i].f = f

Count(f) == Cardinality({i \in 1..Len(ev.calls) : ev.calls[i].f = f})

\* the session the last handler was about, and its host
Session == prop[<<ev.kb, ev.ic>>]
Host == host[ev.ic]

\* the window the specification describes: text[max(0, P - 128) : P]
WindowStart(P) == IF P - MAXCONTEXT_ITEMS > 0 THEN P - MAXCONTEXT_ITEMS ELSE 0
ExpectedWindow(h) ==
    LET P == IF h.anchor < h.cursor THEN h.anchor ELSE h.cursor IN
    [i \in 1..(P - WindowStart(P)) |-> h.text[WindowStart(P) + i]]

C2_PushedWindow ==
    LET h == Host
        P == Min(h.anchor, h.cursor)
        w == ExpectedWindow(h)
    IN  /\ \A i \in 1..Len(ev.calls) :
              ev.calls[i].f = "context_set_if_needed"
                => /\ SurroundingUsable(h)
                   /\ ev.calls[i].a = utf8ToUTF16(w)
                   /\ Len(w) <= MAXCONTEXT_ITEMS
                   /\ \A j \in 1..Len(w) : w[j] = h.text[P - Len(w) + j]
                   /\ P <= MAXCONTEXT_ITEMS => w = SubSeq(h.text, 1, P)
        /\ \A i \in 1..Len(ev.calls) :
              (ev.calls[i].f = "updateContext" /\ SurroundingUsable(h))
                => /\ i < Len(ev.calls)
                   /\ ev.calls[i + 1].f = "context_set_if_needed"
        /\ (Len(ev.calls) > 0 /\ Session.state
            /\ ev.calls[Len(ev.calls)].f = "context_set_if_needed")
              => Session.ctx = EncodeAll(w)

\* a push of a window that does not start at the start of the text
C2_LongWindowPushed ==
    /\ Has("context_set_if_needed")
    /\ Min(Host.anchor, Host.cursor) > MAXCONTEXT_ITEMS
    /\ Host.anchor # Host.cursor
    /\ Len(ExpectedWindow(Host)) = MAXCONTEXT_ITEMS
    /\ Session.ctx = EncodeAll(ExpectedWindow(Host))

\* the refresh follows the creation of a session
RefreshOnCreation ==
    \A i \in 1..Len(ev.calls) :
        (ev.calls[i].f = "state_create" /\ ev.calls[i].a = <<TRUE>>)
          => /\ i < Len(ev.calls)
             /\ ev.calls[i + 1].f = "updateContext"

\* the refresh precedes the processing of a key event when the host can be
\* read
RefreshBeforeKey ==
    (ev.op = "keyEvent" /\ ev.path = "processed" /\ SurroundingUsable(Host))
      => /\ Len(ev.calls) >= 3
         /\ ev.calls[1].f = "updateContext"
         /\ ev.calls[2].f = "context_set_if_needed"
         /\ ev.calls[3].f = "process_event"

\* C3 (as claimed): a refresh on the creation of a session, before each key
\* event with valid surrounding text, and after an editor-level reset
C3_AsClaimed ==
    /\ RefreshOnCreation
    /\ RefreshBeforeKey
    /\ (ev.op = "reset" /\ ev.path = "done") => Has("updateContext")

\* C3 (amended): a refresh on the creation of a session and before each key
\* event with valid surrounding text (and none before a key event without);
\* an editor-level reset clears the context and does not refresh
C3_RefreshPoints ==
    /\ RefreshOnCreation
    /\ RefreshBeforeKey
    /\ (ev.op = "keyEvent" /\ ev.path = "processed"
        /\ ~SurroundingUsable(Host)) => ~Has("updateContext")
    /\ (ev.op = "reset" /\ ev.path = "done")
         => CallNames = <<"context_clear">>

\* a reset of a live session whose host has valid surrounding text
C3_ResetWithValidText ==
    /\ ev.op = "reset" /\ ev.path = "done"
    /\ SurroundingUsable(Host) /\ Min(Host.anchor, Host.cursor) > 0
    /\ Session.state /\ Session.ctx = <<>>

\* the last handler submitted a key event to the core and applied its answer
Processed == ev.op = "keyEvent" /\ ev.path = "processed"

numOfDelete == ev.act.code_points_to_delete

\* the key of the last event is BackSpace, whatever the modifiers
IsBackSpace == ev.key.sym = "BackSpace"

\* the key of the last event is BackSpace with none of the modifiers the
\* comparison of the key looks at (Ctrl, Alt, Shift, Super)
IsPlainBackSpace ==
    IsBackSpace /\ ev.key.states \cap {"Ctrl", "Mod1", "Shift", "Super"} = {}

NoProgrammaticDeletion ==
    Count("deleteSurroundingText") = 0 /\ Count("forwardKey") = 0

\* C4 (as claimed): one unit to delete and a BackSpace key: no programmatic
\* deletion, and the event is marked to be emitted raw
C4_AsClaimed ==
    (Processed /\ numOfDelete = 1 /\ IsBackSpace)
      => (NoProgrammaticDeletion /\ ev.rawSet)

\* C4 (amended): one unit to delete and a BackSpace key with none of the
\* modifiers the comparison looks at (Ctrl, Alt, Super) held: no programmatic
\* deletion, the event is marked to be emitted raw and is left unfiltered,
\* whatever the capability of the host; with such a modifier held (Ctrl +
\* BackSpace) the deletion is programmatic
C4_RawBackSpace ==
    /\ (Processed /\ numOfDelete = 1 /\ IsPlainBackSpace)
         => (NoProgrammaticDeletion /\ ev.rawSet /\ ~ev.filtered)
    /\ (Processed /\ numOfDelete = 1 /\ IsBackSpace /\ ~IsPlainBackSpace)
         => (~ev.rawSet /\ ~NoProgrammaticDeletion)

\* a raw BackSpace on a host without the capability
C4_RawOnPlainHost ==
    /\ Processed /\ numOfDelete = 1 /\ IsPlainBackSpace
    /\ ~Host.cap /\ ev.rawSet /\ ~ev.act.emit_keystroke

\* C5: a deletion that is not (one unit, BackSpace) on a host with the
\* capability: exactly one deleteSurroundingText(-N, N), no forwarded key
C5_DeleteRange ==
    (Processed /\ numOfDelete > 0 /\ Host.cap
     /\ ~(numOfDelete = 1 /\ IsPlainBackSpace))
      => /\ Count("deleteSurroundingText") = 1
         /\ \A i \in 1..Len(ev.calls) :
               ev.calls[i].f = "deleteSurroundingText"
                 => ev.calls[i].a = <<0 - numOfDelete, numOfDelete>>
         /\ Count("forwardKey") = 0
         /\ ~ev.rawSet

C5_ThreeDeleted ==
    /\ Processed /\ numOfDelete = 3 /\ Host.cap
    /\ Count("deleteSurroundingText") = 1

\* C6: a deletion that is not (one unit, BackSpace) on a host without the
\* capability: exactly N forwarded BackSpace keys, no deleteSurroundingText,
\* and the handler goes on to its accept/forward decision
C6_ForwardedBackSpaces ==
    (Processed /\ numOfDelete > 0 /\ ~Host.cap
     /\ ~(numOfDelete = 1 /\ IsPlainBackSpace))
      => /\ Count("forwardKey") = numOfDelete
         /\ \A i \in 1..Len(ev.calls) :
               ev.calls[i].f = "forwardKey" => ev.calls[i].a = <<"BackSpace">>
         /\ Count("deleteSurroundingText") = 0
         /\ ~ev.rawSet
         /\ ev.filtered = ~ev.act.emit_keystroke

C6_TwoForwarded ==
    /\ Processed /\ numOfDelete = 2 /\ ~Host.cap
    /\ Count("forwardKey") = 2

\* C7: a processed event is left unfiltered exactly when the answer of the
\* core has emit_keystroke set or the deleting step of this event set the
\* flag; otherwise it is filtered and accepted
C7_AcceptOrForward ==
    /\ Processed
         => /\ ~ev.filtered <=> (ev.act.emit_keystroke \/ ev.rawSet)
            /\ ev.filtered <=> Count("filterAndAccept") = 1
            /\ Count("filterAndAccept") <= 1
    /\ ~Processed => (~ev.filtered /\ Count("filterAndAccept") = 0)

\* an event left unfiltered only because its deleting step set the flag
C7_RawLeftUnfiltered ==
    /\ Processed /\ ev.rawSet /\ ~ev.act.emit_keystroke /\ ~ev.filtered
    /\ ~emit_keystroke

\* the output of the answer as the specification reads it: the code points
\* before the terminator, nothing for an absent output
ExpectedOutput ==
    IF ev.act.output_null THEN <<>>
    ELSE IF ev.act.output[1] = 0 THEN <<>>
    ELSE SubSeq(ev.act.output, 1, Len(ev.act.output) - 1)

\* C8: a non-empty output is committed in exactly one commitString call,
\* an empty or absent output in none
C8_CommitOnce ==
    /\ Processed
         => /\ ExpectedOutput # <<>>
                 => /\ Count("commitString") = 1
                    /\ \A i \in 1..Len(ev.calls) :
                          ev.calls[i].f = "commitString"
                            => ev.calls[i].a = <<ExpectedOutput>>
            /\ ExpectedOutput = <<>> => Count("commitString") = 0
    /\ ~Processed => Count("commitString") = 0

C8_Committed ==
    /\ Processed /\ Len(ExpectedOutput) = 2 /\ Count("commitString") = 1

C8_NothingCommitted ==
    /\ Processed /\ ~ev.act.output_null /\ ExpectedOutput = <<>>
    /\ Count("commitString") = 0

\* a usable session: the keyboard is loaded, its factory registered, and the
\* property of the pair holds an engine session
Usable(kb, ic) ==
    /\ kbd[kb].keyboard_ /\ kbd[kb].registered
    /\ prop[<<kb, ic>>].exists /\ prop[<<kb, ic>>].state

Inert(kb, ic) == ~Usable(kb, ic)

\* the handler of this step did nothing at all
NoOpStep ==
    /\ Len(ev'.calls) = 0
    /\ ~ev'.filtered
    /\ UNCHANGED <<kbd, ics, host, prop, emit_keystroke, core>>

\* C9 (as claimed): on a pair without a usable session, keyEvent, reset and
\* activate call nothing and change nothing
C9_AsClaimed ==
    [][ (ev'.op \in {"keyEvent", "reset", "activate"}
         /\ Inert(ev'.kb, ev'.ic)) => NoOpStep ]_vars

\* C9 (amended): on a pair without a usable session, keyEvent and reset
\* call nothing and change nothing, and so does activate once the load of
\* the keyboard has been attempted; the activate of a keyboard not yet
\* loaded performs the load
C9_InertContext ==
    [][ /\ (ev'.op \in {"keyEvent", "reset"} /\ Inert(ev'.kb, ev'.ic))
             => NoOpStep
        /\ (ev'.op = "activate" /\ Inert(ev'.kb, ev'.ic)
            /\ kbd[ev'.kb].loaded_) => NoOpStep
        /\ (ev'.op = "activate" /\ ~kbd[ev'.kb].loaded_)
             => (Len(ev'.calls) > 0 /\ ev'.calls[1].f = "load"
                 /\ kbd'[ev'.kb].loaded_)
      ]_vars

\* a key event on a pair whose session could not be created
C9_KeyOnFailedSession ==
    /\ ev.op = "keyEvent" /\ ev.path = "inert" /\ Len(ev.calls) = 0
    /\ kbd[ev.kb].keyboard_ /\ kbd[ev.kb].registered
    /\ Session.exists /\ ~Session.state

\* the load of the keyboard or the creation of the session has failed
LoadFailed(kb) ==
    kbd[kb].loaded_ /\ (~kbd[kb].keyboard_ \/ ~kbd[kb].registered)

CreateFailed(kb, ic) == prop[<<kb, ic>>].exists /\ ~prop[<<kb, ic>>].state

Failed(kb, ic) == LoadFailed(kb) \/ CreateFailed(kb, ic)

\* C10: once the load of a keyboard or the creation of a session has
\* failed, no activate, keyEvent or reset (nor a report of the host) makes
\* the pair usable again, and none on that pair loads or creates again
C10_FailureIsTerminal ==
    [][ \A kb \in AllKBs, ic \in AllICs :
          (Failed(kb, ic)
           /\ ev'.op \in {"activate", "keyEvent", "reset", "host"})
            => /\ Failed(kb, ic)'
               /\ Inert(kb, ic)'
               /\ (ev'.kb = kb /\ ev'.ic = ic)
                    => \A i \in 1..Len(ev'.calls) :
                          ev'.calls[i].f \notin {"load", "state_create"}
      ]_vars

\* an activate on a pair whose keyboard failed to load earlier
C10_ActivateAfterLoadFailure ==
    /\ ev.op = "activate" /\ ev.path = "inert" /\ Len(ev.calls) = 0
    /\ kbd[ev.kb].loaded_ /\ ~kbd[ev.kb].keyboard_

AllPairs == AllKBs \X AllICs

\* C11: every (keyboard, input context) pair has at most one engine session:
\* the core holds at most one km_core_state created for the input context
\* of the pair, exactly one when the pair's KeymanState holds a session, and
\* only pairs of existing input contexts and registered keyboards hold one
C11_OneSessionPerPair ==
    \A p \in AllPairs :
        /\ core[p].live <= 1
        /\ prop[p].state <=> core[p].live = 1
        /\ prop[p].state
             => (prop[p].exists /\ p[2] \in ics /\ kbd[p[1]].registered)

\* both keyboards hold a session for both input contexts, one of them for
\* an input context created again after its destruction
C11_AllPairsLive ==
    /\ \A p \in AllPairs : prop[p].state /\ core[p].live = 1
    /\ core[<<"k1", "ic1">>].orphaned
    /\ ev.op = "activate"

\* C12: the keyboard is loaded by the first activate and by nothing else,
\* and an activate of a keyboard whose load was attempted loads nothing,
\* registers nothing, reads no persisted options and leaves the keyboard
\* data as it was
C12_LazyIdempotentLoad ==
    [][ /\ (ev'.op = "activate" /\ kbd[ev'.kb].loaded_)
             => /\ \A i \in 1..Len(ev'.calls) :
                      ev'.calls[i].f \notin {"load", "registerProperty",
                                             "readAsIni", "state_create"}
                /\ kbd' = kbd
        /\ (ev'.op = "activate" /\ ~kbd[ev'.kb].loaded_)
             => /\ Len(ev'.calls) > 0 /\ ev'.calls[1].f = "load"
                /\ Cardinality({i \in 1..Len(ev'.calls) :
                                  ev'.calls[i].f = "load"}) = 1
                /\ kbd'[ev'.kb].loaded_
        /\ ev'.op # "activate"
             => \A kb \in AllKBs :
                   /\ kbd'[kb].loaded_ = kbd[kb].loaded_
                   /\ kbd'[kb].keyboard_ = kbd[kb].keyboard_
                   /\ kbd'[kb].registered = kbd[kb].registered
      ]_vars

\* an activate of a keyboard loaded earlier and holding persisted options:
\* it only refreshes
C12_SecondActivate ==
    /\ ev.op = "activate" /\ ev.path = "done"
    /\ kbd[ev.kb].keyboard_ /\ kbd[ev.kb].config_ # {}
    /\ CallNames = <<"updateContext">>

\* C13: an activate on a pair that has a usable session (once the keyboard
\* is loaded) ends with a context refresh: its last call is the refresh, and
\* with the capability and a valid surrounding text the refresh pushes, so
\* that the context of the engine is the current window right after
C13_ActivateRefreshes ==
    ev.op = "activate"
      => /\ ev.path = "done" <=> Usable(ev.kb, ev.ic)
         /\ ev.path = "done"
              => LET n == Len(ev.calls) IN
                 IF SurroundingUsable(Host)
                 THEN /\ n >= 2
                      /\ ev.calls[n - 1].f = "updateContext"
                      /\ ev.calls[n].f = "context_set_if_needed"
                      /\ Session.ctx = EncodeAll(ExpectedWindow(Host))
                      /\ ~Session.edited
                 ELSE /\ n >= 1
                      /\ ev.calls[n].f = "updateContext"

\* an activate of a loaded keyboard whose context the core had edited: the
\* context is the 128 characters before the cursor again
C13_ActivateResynchronises ==
    /\ ev.op = "activate" /\ ev.path = "done"
    /\ CallNames = <<"updateContext", "context_set_if_needed">>
    /\ Len(ExpectedWindow(Host)) = MAXCONTEXT_ITEMS
    /\ Session.ctx = EncodeAll(ExpectedWindow(Host))

\* the four latches of a KeymanState are all false
LatchesClear(s) ==
    ~s.lctrl_pressed /\ ~s.rctrl_pressed /\ ~s.lalt_pressed /\ ~s.ralt_pressed

\* C14: a reset on a pair with a live session clears the context of the
\* engine and the four latches and does nothing else: the session stays (no
\* km_core_state is created or lost, the pair is usable afterwards), the
\* only call is the clear (no host edit, no option write), and the keyboard
\* data, the host and the other sessions are as before
C14_ResetKeepsSession ==
    [][ (ev'.op = "reset" /\ Usable(ev'.kb, ev'.ic))
          => LET p == <<ev'.kb, ev'.ic>> IN
             /\ prop'[p].ctx = <<>> /\ ~prop'[p].edited
             /\ LatchesClear(prop'[p])
             /\ prop'[p].exists /\ prop'[p].state
             /\ core' = core
             /\ Len(ev'.calls) = 1 /\ ev'.calls[1].f = "context_clear"
             /\ ~ev'.filtered
             /\ UNCHANGED <<kbd, ics, host, emit_keystroke>>
             /\ \A q \in AllPairs : q # p => prop'[q] = prop[q]
      ]_vars

\* a reset of a live session, which is still the session of the pair
C14_ResetOnLiveSession ==
    /\ ev.op = "reset" /\ ev.path = "done"
    /\ Usable(ev.kb, ev.ic) /\ core[<<ev.kb, ev.ic>>].live = 1
    /\ Session.ctx = <<>> /\ LatchesClear(Session)
    /\ SurroundingUsable(Host)

\* C15 (as claimed): when the host has destroyed an input context, the
\* engine session bound to it is destroyed: neither a KeymanState nor a
\* km_core_state created for that input context exists afterwards
C15_AsClaimed ==
    ev.op = "destroyIC"
      => \A kb \in AllKBs :
            /\ ~prop[<<kb, ev.ic>>].exists
            /\ core[<<kb, ev.ic>>].live = 0
            /\ ~core[<<kb, ev.ic>>].orphaned

\* the modifier mask the last handler passed to km_core_process_event
ModMask ==
    LET i == CHOOSE j \in 1..Len(ev.calls) : ev.calls[j].f = "process_event"
    IN  ev.calls[i].a[2]

\* the modifier states of the key of the last event
Flags == ev.key.states

\* C16 (as claimed): with the Alt flag (Mod1) set, the mask has the left Alt
\* bit iff the left Alt latch is held and the right Alt bit iff the right
\* Alt latch is held
C16_AsClaimed ==
    (Processed /\ "Mod1" \in Flags)
      => /\ "LALT" \in ModMask <=> Session.lalt_pressed
         /\ "RALT" \in ModMask <=> Session.ralt_pressed

\* C16 (amended): the mask has the left Alt bit iff the Alt flag is set and
\* the left Alt latch is held, and the right Alt bit iff the Alt flag is set
\* and the right Alt latch is held, or the AltGr flag (Mod5) is set: with
\* the AltGr flag clear, the Alt flag with only the right latch held gives
\* exactly the right Alt bit, and with both latches clear no Alt bit
C16_AltResolution ==
    Processed
      => /\ "LALT" \in ModMask
              <=> ("Mod1" \in Flags /\ Session.lalt_pressed)
         /\ "RALT" \in ModMask
              <=> \/ "Mod1" \in Flags /\ Session.ralt_pressed
                  \/ "Mod5" \in Flags

\* the Alt flag with the right Alt latch alone
C16_RightAltOnly ==
    /\ Processed /\ Flags = {"Mod1"}
    /\ Session.ralt_pressed /\ ~Session.lalt_pressed
    /\ ModMask = {"RALT"}

\* C17: the mask has the left Ctrl bit iff the Ctrl flag is set and the left
\* Ctrl latch is held, and the right Ctrl bit iff the Ctrl flag is set and
\* the right Ctrl latch is held; the flag with neither latch gives no Ctrl
\* bit
C17_CtrlResolution ==
    Processed
      => /\ "LCTRL" \in ModMask
              <=> ("Ctrl" \in Flags /\ Session.lctrl_pressed)
         /\ "RCTRL" \in ModMask
              <=> ("Ctrl" \in Flags /\ Session.rctrl_pressed)

\* the Ctrl flag with neither Ctrl latch held
C17_CtrlWithoutLatch ==
    /\ Processed /\ Flags = {"Ctrl"}
    /\ ~Session.lctrl_pressed /\ ~Session.rctrl_pressed
    /\ Session.lalt_pressed
    /\ ModMask = {}

\* C18: the mask has the Shift bit iff the Shift flag is set, and the right
\* Alt bit whenever the AltGr flag (Mod5) is set, whatever the latches
C18_ShiftAndAltGr ==
    Processed
      => /\ "SHIFT" \in ModMask <=> "Shift" \in Flags
         /\ "Mod5" \in Flags => "RALT" \in ModMask

\* Shift and AltGr with no latch held
C18_AltGrWithoutLatch ==
    /\ Processed /\ Flags = {"Shift", "Mod5"}
    /\ LatchesClear(Session)
    /\ ModMask = {"SHIFT", "RALT"}

\* C19: a key event on a live session sets each latch to pressed when its
\* key code (the X11 code less 8) is the code of the latch (29 left Ctrl,
\* 97 right Ctrl, 56 left Alt, 100 right Alt) and leaves it as it was
\* otherwise
C19_LatchTracking ==
    [][ (ev'.op = "keyEvent" /\ Usable(ev'.kb, ev'.ic))
          => LET p == <<ev'.kb, ev'.ic>>
                 keycode == ev'.key.code - 8
                 pressed == ~ev'.key.release
             IN  /\ prop'[p].lctrl_pressed
                      = IF keycode = 29 THEN pressed
                        ELSE prop[p].lctrl_pressed
                 /\ prop'[p].rctrl_pressed
                      = IF keycode = 97 THEN pressed
                        ELSE prop[p].rctrl_pressed
                 /\ prop'[p].lalt_pressed
                      = IF keycode = 56 THEN pressed
                        ELSE prop[p].lalt_pressed
                 /\ prop'[p].ralt_pressed
                      = IF keycode = 100 THEN pressed
                        ELSE prop[p].ralt_pressed
      ]_vars

\* the release of right Alt while left Ctrl is held
C19_RightAltReleased ==
    /\ ev.op = "keyEvent" /\ ev.path = "unmapped"
    /\ ev.key.code - 8 = KEYMAN_RALT /\ ev.key.release
    /\ ~Session.ralt_pressed /\ Session.lctrl_pressed

\* the key code whose release clears a latch
LatchCode(latch) ==
    IF latch = "lctrl_pressed" THEN KEYMAN_LCTRL
    ELSE IF latch = "rctrl_pressed" THEN KEYMAN_RCTRL
    ELSE IF latch = "lalt_pressed" THEN KEYMAN_LALT
    ELSE KEYMAN_RALT

LatchNames ==
    {"lctrl_pressed", "rctrl_pressed", "lalt_pressed", "ralt_pressed"}

\* C20: after a reset of a live session its four latches are false, and a
\* latch of a session that stays goes from held to clear only in a reset
\* or in the key event that releases the key of that latch
C20_LatchesZeroedOnlyByReset ==
    [][ /\ (ev'.op = "reset" /\ Usable(ev'.kb, ev'.ic))
             => LatchesClear(prop'[<<ev'.kb, ev'.ic>>])
        /\ \A p \in AllPairs, latch \in LatchNames :
              (prop[p][latch] /\ prop'[p].exists /\ ~prop'[p][latch])
                => \/ ev'.op = "reset" /\ p = <<ev'.kb, ev'.ic>>
                   \/ /\ ev'.op = "keyEvent" /\ p = <<ev'.kb, ev'.ic>>
                      /\ ev'.key.release
                      /\ ev'.key.code - 8 = LatchCode(latch)
      ]_vars

\* a key processed by the core with the four latches held, which stay held
C20_ProcessedWithLatchesHeld ==
    /\ Processed
    /\ Session.lctrl_pressed /\ Session.rctrl_pressed
    /\ Session.lalt_pressed /\ Session.ralt_pressed

\* the key code of the last event is outside [0, 255] or the table holds the
\* unused entry 0 for it (an entry the initialiser does not reach is 0)
UnmappedCode ==
    LET keycode == ev.key.code - 8 IN
    \/ keycode < 0
    \/ keycode > 255
    \/ keycode >= Len(keycode_to_vk_init)
    \/ keycode_to_vk_init[keycode + 1] = 0

\* C21: a key event whose key code is outside [0, 255] or maps to 0 is not
\* submitted to the core, commits nothing, deletes nothing, writes no
\* option and is not filtered
C21_UnmappedNotSubmitted ==
    (ev.op = "keyEvent" /\ UnmappedCode)
      => /\ \A i \in 1..Len(ev.calls) :
               ev.calls[i].f \notin
                 {"process_event", "get_actions", "commitString",
                  "deleteSurroundingText", "forwardKey", "setValueByPath",
                  "safeSaveAsIni", "filterAndAccept"}
         /\ ~ev.filtered /\ ~ev.rawSet
         /\ ev.path # "processed"

\* a key code above 255 and the left Ctrl key on a live session
C21_CodeAboveTable ==
    /\ ev.op = "keyEvent" /\ ev.path = "range" /\ ev.key.code - 8 > 255
    /\ Usable(ev.kb, ev.ic) /\ Session.lctrl_pressed

\* the key of the last event is a cursor-movement key
CursorKey ==
    /\ ev.key.sym \in {"Home", "Left", "Up", "Right", "Down", "Page_Up",
                        "Page_Down", "End"}
    /\ ev.key.states \subseteq {"Ctrl", "Shift"}

ListedOptions ==
    LET o == ev.act.persist_options
        ends == {i \in 1..Len(o) : o[i].scope = 0}
        end == CHOOSE i \in ends : \A j \in ends : i <= j
    IN  SubSeq(o, 1, end - 1)

\* a triple with a key and a value whose key decodes to a non-empty string
Writable(t) ==
    ~t.key_null /\ ~t.value_null /\ utf16ToUTF8(t.key) # <<>>

\* the store writes of the last handler, in order
Writes == SelectSeq(ev.calls, LAMBDA c : c.f = "setValueByPath")

\* C23: the store writes of a processed event are, in order, those of the
\* triples of the array whose key and value are both non-null and whose key
\* decodes to a non-empty string, each under its decoded key and followed
\* by a save; a triple with a null key, a null value or a key that decodes
\* to the empty string causes no write
C23_OptionWrites ==
    Processed
      => LET expected == SelectSeq(ListedOptions, Writable) IN
         /\ Len(Writes) = Len(expected)
         /\ \A i \in 1..Len(expected) :
               /\ Writes[i].a[1] = utf16ToUTF8(expected[i].key)
               /\ Writes[i].a[1] # <<>>
         /\ Count("safeSaveAsIni") = Len(expected)

\* x = y and a triple with a null key: one write, for x
C23_OneWriteForX ==
    /\ Processed
    /\ ev.act.persist_options
         = <<OptionXY, OptionItem(1, TRUE, <<>>, FALSE, <<121>>), OptionsEnd>>
    /\ Len(Writes) = 1 /\ Writes[1].a = << <<120>>, <<121>> >>
    /\ kbd[ev.kb].config_ = { << <<120>>, <<121>> >> }

DecodeFails(units) == Decode16(units) = Fail16

\* C28 (as claimed): nothing is done with a failed transcoding: no refresh
\* pushes an empty buffer, and a triple whose key or value fails to decode
\* causes no store write
C28_AsClaimed ==
    /\ \A i \in 1..Len(ev.calls) :
          ev.calls[i].f = "context_set_if_needed" => ev.calls[i].a # <<>>
    /\ Processed
         => \A i \in 1..Len(ListedOptions) :
               LET t == ListedOptions[i] IN
               (~t.key_null /\ ~t.value_null
                /\ (DecodeFails(t.key) \/ DecodeFails(t.value)))
                 => \A j \in 1..Len(Writes) :
                       Writes[j].a[1] # utf16ToUTF8(t.key)

\* a text of Unicode scalar values: every character below 0x110000 and
\* none a surrogate or an undecodable byte
WellFormed(str) ==
    \A i \in 1..Len(str) :
        str[i] \in 0..1114111 /\ str[i] \notin 55296..57343

HasNul(str) == \E i \in 1..Len(str) : str[i] = 0

\* C25 (as claimed): every well-formed text comes back from the two
\* conversions unchanged
C25_AsClaimed ==
    (ev.op = "roundtrip" /\ WellFormed(ev.str)) => ev.out = ev.str

\* C25 (amended): every well-formed text without U+0000 comes back from the
\* two conversions unchanged
C25_RoundTrip ==
    (ev.op = "roundtrip" /\ WellFormed(ev.str) /\ ~HasNul(ev.str))
      => ev.out = ev.str

\* a text of one-unit and two-unit characters after the round trip
C25_ThroughSurrogates ==
    /\ ev.op = "roundtrip"
    /\ ev.str = <<97, 128512, 65535>>
    /\ ev.units = <<97, 55357, 56832, 65535, 0>>
    /\ ev.out = ev.str

\* C26: utf8ToUTF16 returns the empty vector for a text that is malformed
\* or holds a character of 0x110000 or more, whatever precedes the fault,
\* and a terminated buffer otherwise
C26_EncodeFailsWhole ==
    ev.op = "utf8ToUTF16"
      => IF WellFormed(ev.str)
         THEN ev.units # <<>> /\ ev.units[Len(ev.units)] = 0
         ELSE ev.units = <<>>

\* a valid character followed by 0x110000: nothing is returned
C26_FaultAfterValidPrefix ==
    /\ ev.op = "utf8ToUTF16"
    /\ ev.str = <<97, 1114112>>
    /\ ev.units = <<>>

\* a high surrogate that ends the range or is not followed by a low
\* surrogate, or a low surrogate that does not follow a high surrogate
\* which opens a pair
RECURSIVE PairedUpTo(_, _)
PairedUpTo(units, n) ==
    IF n = 0 THEN TRUE
    ELSE IF units[n] \in 56320..57343
    THEN n >= 2 /\ units[n - 1] \in 55296..56319 /\ PairedUpTo(units, n - 2)
    ELSE units[n] \notin 55296..56319 /\ PairedUpTo(units, n - 1)

Faulty(units) == ~PairedUpTo(units, Len(units))

\* C27: utf16ToUTF8 returns the empty string for a range with an unpaired
\* high or low surrogate, whatever precedes the fault
C27_DecodeFailsWhole ==
    (ev.op = "utf16ToUTF8" /\ Faulty(ev.units)) => ev.out = <<>>

\* a unit followed by a high surrogate that ends the range
C27_HighSurrogateLast ==
    /\ ev.op = "utf16ToUTF8"
    /\ ev.units = <<97, 55296>>
    /\ ev.out = <<>>

\* C29 (as claimed): when both packages provide a keyboard of one id, the
\* catalogue keeps the record with the greater version string, whichever
\* package is visited first
C29_AsClaimed ==
    ev.op = "listInputMethods"
      => \A id \in DOMAIN ev.metadata[1] \cap DOMAIN ev.metadata[2] :
            LET v1 == ev.metadata[1][id].version
                v2 == ev.metadata[2][id].version
            IN  /\ StringLess(v1, v2) => ev.keyboards[id].version = v2
                /\ StringLess(v2, v1) => ev.keyboards[id].version = v1

\* a record is kept by KmpMetadata: its id is not empty and its package
\* lists <id>.kmx
Kept(package, record) ==
    record.id # "" /\ (record.id \o ".kmx") \in package.files

\* C30: a record with an empty id or without <id>.kmx among the files of
\* its package is in no catalogue entry, and every other record of a
\* package that parses is in the keyboards of the package (the last one
\* of its id) and has its id in the catalogue
C30_DroppedAlone ==
    ev.op = "listInputMethods"
      => /\ \A id \in DOMAIN ev.keyboards :
               LET e == ev.keyboards[id]
                   package == ev.packages[e.baseDir]
               IN  /\ id # "" /\ e.id = id
                   /\ package.parses
                   /\ \E i \in 1..Len(package.keyboards) :
                         /\ package.keyboards[i].id = id
                         /\ package.keyboards[i].version = e.version
                         /\ Kept(package, package.keyboards[i])
         /\ \A p \in 1..Len(ev.packages) :
               LET package == ev.packages[p] IN
               /\ \A id \in DOMAIN ev.metadata[p] :
                     \E i \in 1..Len(package.keyboards) :
                        /\ package.keyboards[i].id = id
                        /\ Kept(package, package.keyboards[i])
               /\ package.parses
                    => \A i \in 1..Len(package.keyboards) :
                          LET r == package.keyboards[i] IN
                          Kept(package, r)
                            => /\ r.id \in DOMAIN ev.metadata[p]
                               /\ r.id \in DOMAIN ev.keyboards
                               /\ (\A j \in (i + 1)..Len(package.keyboards) :
                                       package.keyboards[j].id # r.id)
                                    => ev.metadata[p][r.id].version
                                         = r.version

\* a package whose first record has no rule table among its files and
\* whose second record has: the second is in the catalogue, the first is
\* not
C30_SiblingKept ==
    /\ ev.op = "listInputMethods"
    /\ ev.packages[1] = Package(TRUE, {"a.kmx"},
                                << KeyboardJson("b", "", Version1),
                                   KeyboardJson("a", "", Version9) >>)
    /\ ~ev.packages[2].parses
    /\ DOMAIN ev.keyboards = {"a"}
    /\ ev.keyboards["a"].version = Version9

\* C31: a check for updates flags its event iff some kmp.json is newer than
\* timestamp_, and changes nothing else: no keyboard data, no input
\* context, no session, latch or engine context, no core object, not the
\* pending-keystroke flag and not timestamp_
C31_CheckUpdateOnlyFlags ==
    [][ev'.op = "checkUpdate"
         => /\ UNCHANGED <<kbd, ics, host, prop, emit_keystroke, core,
                           timestamp_>>
            /\ ev'.hasUpdate
                 = (\E i \in 1..Len(ev'.mtimes) : timestamp_ < ev'.mtimes[i])]_vars

\* a check that flags its event beside a live session with a latch held
\* and a context, after an enumeration
C31_FlaggedBesideLiveSession ==
    /\ ev.op = "checkUpdate" /\ ev.hasUpdate
    /\ timestamp_ = 1
    /\ kbd["k1"].loaded_
    /\ prop[<<"k1", "ic1">>].state
    /\ prop[<<"k1", "ic1">>].lalt_pressed
    /\ prop[<<"k1", "ic1">>].ctx # <<>>

\* the position of the call that fetches the answer of the core
AnswerAt == CHOOSE i \in 1..Len(ev.calls) : ev.calls[i].f = "get_actions"

\* the step of the applier a call belongs to: 1 deletion, 2 commit,
\* 3 accept, 4 persistence, 5 the query of the action items, 0 none
StepOf(f) ==
    IF f \in {"deleteSurroundingText", "forwardKey"} THEN 1
    ELSE IF f = "commitString" THEN 2
    ELSE IF f = "filterAndAccept" THEN 3
    ELSE IF f \in {"setValueByPath", "safeSaveAsIni"} THEN 4
    ELSE IF f \in {"action_items", "context_clear"} THEN 5
    ELSE 0

\* the calls after the answer is fetched are calls of the steps, in the
\* order of the steps
StepsInOrder ==
    /\ \A i \in (AnswerAt + 1)..Len(ev.calls) : StepOf(ev.calls[i].f) > 0
    /\ \A i, j \in (AnswerAt + 1)..Len(ev.calls) :
          i < j => StepOf(ev.calls[i].f) <= StepOf(ev.calls[j].f)
    /\ Count("deleteSurroundingText") <= 1
    /\ Count("deleteSurroundingText") = 0 \/ Count("forwardKey") = 0
    /\ Count("commitString") <= 1
    /\ Count("filterAndAccept") <= 1

SurrogatesOf(c, high, low) ==
    /\ high \in 55296..56319
    /\ low \in 56320..57343
    /\ (high - 55296) * 1024 + (low - 56320) = c - 65536

\* the units are those of the characters of str, one unit for a character
\* below 0x10000 and a pair of surrogates for any other, and a last 0
RECURSIVE EncodedAs(_, _)
EncodedAs(str, units) ==
    IF str = <<>> THEN units = <<0>>
    ELSE IF Head(str) < 65536
    THEN /\ Len(units) >= 1
         /\ units[1] = Head(str)
         /\ EncodedAs(Tail(str), Tail(units))
    ELSE /\ Len(units) >= 2
         /\ SurrogatesOf(Head(str), units[1], units[2])
         /\ EncodedAs(Tail(str), Tail(Tail(units)))

\* C33: utf8ToUTF16 turns a character below 0x10000 into the unit of its
\* value and any other into a high and a low surrogate that carry the two
\* halves of c - 0x10000; every unit fits in 16 bits; utf16ToUTF8 turns a
\* pair of surrogates into the character they carry
C33_SurrogateArithmetic ==
    /\ (ev.op \in {"utf8ToUTF16", "roundtrip"} /\ WellFormed(ev.str))
         => /\ EncodedAs(ev.str, ev.units)
            /\ \A i \in 1..Len(ev.units) : ev.units[i] \in 0..65535
    /\ (ev.op = "roundtrip" /\ Len(ev.str) = 1 /\ WellFormed(ev.str)
           /\ ev.str[1] >= 65536)
         => ev.out = ev.str
    /\ (ev.op = "utf16ToUTF8" /\ Len(ev.units) = 2
           /\ ev.units[1] \in 55296..56319 /\ ev.units[2] \in 56320..57343)
         => /\ Len(ev.out) = 1
            /\ SurrogatesOf(ev.out[1], ev.units[1], ev.units[2])

\* the last code point, through its pair and back
C33_LastCodePoint ==
    /\ ev.op = "roundtrip"
    /\ ev.str = <<1114111>>
    /\ ev.units = <<56319, 57343, 0>>
    /\ ev.out = <<1114111>>

\* the number of units the characters of a text take
RECURSIVE Width(_)
Width(str) ==
    IF str = <<>> THEN 0
    ELSE (IF Head(str) < 65536 THEN 1 ELSE 2) + Width(Tail(str))

\* the number of characters a range of paired units holds
Characters(units) ==
    Cardinality({i \in 1..Len(units) : units[i] \notin 56320..57343})

\* C34: the buffer of a valid text, the empty text included, is its units
\* and one 0 after them, so it is never empty, and the empty vector is
\* returned for the invalid texts only; utf16ToUTF8 turns a range without
\* a terminator into all its characters
C34_TerminatorAppended ==
    /\ ev.op = "utf8ToUTF16"
         => /\ WellFormed(ev.str)
                 => /\ Len(ev.units) = Width(ev.str) + 1
                    /\ ev.units[Len(ev.units)] = 0
                    /\ ~HasNul(ev.str)
                         => \A j \in 1..(Len(ev.units) - 1) : ev.units[j] # 0
            /\ (ev.units = <<>>) = ~WellFormed(ev.str)
    /\ (ev.op = "utf16ToUTF8" /\ ~Faulty(ev.units))
         => Len(ev.out) = Characters(ev.units)

\* the empty text: a buffer of the terminator alone
C34_EmptyTextTerminated ==
    /\ ev.op = "utf8ToUTF16"
    /\ ev.str = <<>>
    /\ ev.units = <<0>>

\* C35: emit_keystroke is false between handlers: the event whose deleting
\* step sets it is left to the host and clears it, so a processed event
\* that neither sets it nor is asked by the core to emit the keystroke is
\* always filtered, on whichever input context it arrives
C35_FlagNeverPending ==
    /\ [](emit_keystroke = FALSE)
    /\ [][(ev'.op = "keyEvent" /\ ev'.path = "processed")
            => ev'.filtered = ~(ev'.rawSet \/ ev'.act.emit_keystroke)]_vars

\* a BackSpace on the second input context whose deleting step set the
\* flag, beside a live session of the first: left to the host, flag clear
C35_RawBackSpaceConsumed ==
    /\ Processed /\ ev.ic = "ic2"
    /\ ev.rawSet /\ ~ev.act.emit_keystroke /\ ~ev.filtered
    /\ emit_keystroke = FALSE
    /\ prop[<<"k1", "ic1">>].state

\* C39: a key event, a reset or an activation on one input context leaves
\* every live session of every other input context as it was: its latches,
\* its engine context and the rest of its state
C39_OtherSessionsUntouched ==
    [][ev'.op \in {"keyEvent", "reset", "activate"}
         => \A kb \in AllKBs, ic \in AllICs \ {ev'.ic} :
               prop[<<kb, ic>>].state => prop'[<<kb, ic>>] = prop[<<kb, ic>>]]_vars

\* a reset on the first input context beside a session of the second, on
\* the same keyboard, that keeps its latch and its context
C39_ResetBesideHeldLatch ==
    /\ ev.op = "reset" /\ ev.path = "done"
    /\ ev.kb = "k1" /\ ev.ic = "ic1"
    /\ prop[<<"k1", "ic2">>].state
    /\ prop[<<"k1", "ic2">>].lalt_pressed
    /\ prop[<<"k1", "ic2">>].ctx # <<>>
    /\ ~prop[<<"k1", "ic1">>].lalt_pressed

\* C36: each latch of a live session is held iff the last event for its key
\* that the session was given, since it was created or last reset, was a
\* press, for the four keys alike (none of which is a mapped key)
C36_LatchIsLastEvent ==
    \A p \in AllKBs \X AllICs :
        prop[p].state
          => /\ prop[p].lctrl_pressed = (last[p].lctrl_pressed = "press")
             /\ prop[p].rctrl_pressed = (last[p].rctrl_pressed = "press")
             /\ prop[p].lalt_pressed = (last[p].lalt_pressed = "press")
             /\ prop[p].ralt_pressed = (last[p].ralt_pressed = "press")

\* a session whose left Ctrl key was released, whose right Alt key was
\* pressed last and whose other two keys saw no event since the reset
C36_PressAfterReset ==
    /\ prop[<<"k1", "ic1">>].state
    /\ last[<<"k1", "ic1">>]
         = [lctrl_pressed |-> "release", rctrl_pressed |-> "none",
            lalt_pressed |-> "none", ralt_pressed |-> "press"]
    /\ prop[<<"k1", "ic1">>].ralt_pressed
    /\ ~prop[<<"k1", "ic1">>].lctrl_pressed
    /\ ev.op = "keyEvent" /\ ev.path = "unmapped"

\* the key codes the latches follow
TrackedCodes == {29, 56, 97, 100}

\* C37: a key event for one of the key codes 29, 56, 97, 100, press or
\* release, makes no call (it is not submitted to the core), is not
\* filtered, and changes nothing but the latches of its own session
C37_ModifierKeysPassThrough ==
    [][(ev'.op = "keyEvent" /\ (ev'.key.code - 8) \in TrackedCodes)
         => /\ ev'.calls = <<>>
            /\ ~ev'.filtered /\ ~ev'.rawSet
            /\ ev'.path \in {"unmapped", "inert"}
            /\ UNCHANGED <<kbd, ics, host, emit_keystroke, core>>
            /\ \A p \in DOMAIN prop :
                  [prop'[p] EXCEPT !.lctrl_pressed = prop[p].lctrl_pressed,
                                   !.rctrl_pressed = prop[p].rctrl_pressed,
                                   !.lalt_pressed = prop[p].lalt_pressed,
                                   !.ralt_pressed = prop[p].ralt_pressed]
                    = prop[p]]_vars

\* the press of the left Alt key on a session with a context: the latch is
\* held, the context is the one it had, the key is left to the host
C37_LeftAltPressed ==
    /\ ev.op = "keyEvent" /\ ev.path = "unmapped"
    /\ ev.key.code - 8 = 56 /\ ~ev.key.release
    /\ ev.calls = <<>> /\ ~ev.filtered
    /\ Session.lalt_pressed /\ Session.ctx # <<>>

\* C38: the mask a processed event submits holds no bit but Shift, left
\* and right Alt, left and right Ctrl; without the Alt state (Mod1) the
\* Alt latches add nothing to it, and without the Ctrl state the Ctrl
\* latches add nothing: it is the mask the same states give with that
\* latch clear
C38_MaskBitsAndFlags ==
    Processed
      => /\ ModMask \subseteq {"SHIFT", "LALT", "RALT", "LCTRL", "RCTRL"}
         /\ "Mod1" \notin Flags
              => /\ "LALT" \notin ModMask
                 /\ "RALT" \in ModMask <=> "Mod5" \in Flags
         /\ "Ctrl" \notin Flags
              => /\ "LCTRL" \notin ModMask
                 /\ "RCTRL" \notin ModMask

\* a key with CapsLock, NumLock and Super alone while the four latches are
\* held: an empty mask
C38_LatchesHeldNoFlag ==
    /\ Processed /\ Flags = {"CapsLock", "NumLock", "Super"}
    /\ Session.lctrl_pressed /\ Session.rctrl_pressed
    /\ Session.lalt_pressed /\ Session.ralt_pressed
    /\ ModMask = {}

\* the key code of the last event has an entry in the key table
MappedCode ==
    LET keycode == ev.key.code - 8 IN
    /\ keycode >= 0 /\ keycode <= 255
    /\ keycode < Len(keycode_to_vk_init)
    /\ keycode_to_vk_init[keycode + 1] # 0

\* the positions of the calls of the last handler to one of the functions
CallsTo(fs) == {i \in 1..Len(ev.calls) : ev.calls[i].f \in fs}

\* C40: a key event with a mapped key code on a live session, press or
\* release, is submitted to the core once, with the entry of the table for
\* its code and the press bit ~release, after the refresh of the context
\* and before every deletion, commit and option write of the event
C40_SubmittedOnce ==
    (ev.op = "keyEvent" /\ Usable(ev.kb, ev.ic) /\ MappedCode)
      => /\ Cardinality(CallsTo({"process_event"})) = 1
         /\ \A i \in CallsTo({"process_event"}) :
               /\ ev.calls[i].a[1] = keycode_to_vk_init[ev.key.code - 8 + 1]
               /\ ev.calls[i].a[3] = ~ev.key.release
               /\ \A j \in CallsTo({"updateContext", "context_set_if_needed"}) :
                     j < i
               /\ \A j \in CallsTo({"deleteSurroundingText", "forwardKey",
                                     "commitString", "filterAndAccept",
                                     "setValueByPath", "safeSaveAsIni"}) :
                     i < j
         /\ SurroundingUsable(Host) => Has("updateContext")

\* the release of a mapped key, submitted after a refresh and before a
\* deletion, a commit and an option write
C40_ReleaseSubmitted ==
    /\ Processed /\ ev.key.release
    /\ Has("updateContext")
    /\ Has("deleteSurroundingText") /\ Has("commitString")
    /\ Has("setValueByPath")
    /\ \E i \in CallsTo({"process_event"}) : ev.calls[i].a[3] = FALSE

====
